---- MODULE Spec2Model ----
(***************************************************************************)
(* Verification model of the Tutor-AI repository: the MongoDB persistence  *)
(* service (services/mongodb_service.py, models/mongodb_models.py), the    *)
(* content generation agent (agents/content_generator.py) and the FastAPI  *)
(* boundary with its static fallback provider (api/main.py).               *)
(*                                                                         *)
(* Three specifications share the variables:                               *)
(*   SpecDB       - the persistence service on the study_sessions collection;*)
(*   SpecProgress - the persistence service on the user_progress collection;*)
(*   SpecApi      - process start-up and the POST handlers of the API.      *)
(* Calls are synchronous: dbOp / apiOp hold the call in progress and its   *)
(* result until it has returned to the caller.                             *)
(* Python strings that the code inspects are tuples of one-character       *)
(* strings; datetimes are day counts; None is the empty tuple.             *)
(***************************************************************************)
EXTENDS Integers, Sequences, FiniteSets, TLC

VARIABLES
    sessions,     \* study_sessions collection: _id -> document
    nextId,       \* next ObjectId the driver hands out (never reused)
    progress,     \* user_progress collection, in insertion order
    now,          \* datetime.utcnow(), in days
    dbOp,         \* the last service call: operation, arguments, return value
    content_collection,    \* content collection, in insertion order
    questions_collection,  \* questions collection, in insertion order
    statCalls,    \* per question: update_question_stats calls made, with is_correct, all clean
    users_collection,      \* users collection, in insertion order
    driverUp,     \* the MongoDB server is reachable
    statsInFlight,  \* update_question_stats calls in progress: per caller, its
                    \* position and local variables
    started,      \* the API module has been imported (process is serving)
    apiKey,       \* GEMINI_API_KEY is present in the environment
    agents,       \* module globals content_agent / question_agent / feedback_agent
    constructed,  \* the agent constructors that returned during start-up
    llmCalls,     \* number of model.generate_content calls made so far
    apiOp,        \* the last API request, what its collaborators did, its response
    pipeline,     \* the generate_content calls in progress on the content agent:
                  \* per caller, the local variables of its call frame
    session_state,  \* the dashboard's st.session_state: the quiz keys
    uiPc,         \* position of the dashboard's script run
    quizLog       \* quizzes generated, submitted and evaluated so far

storeVars == <<content_collection, questions_collection, statCalls, users_collection>>
dbVars == <<sessions, nextId, progress, now, dbOp, storeVars, driverUp, statsInFlight>>
apiVars == <<started, apiKey, agents, constructed, llmCalls, apiOp, pipeline>>

uiVars == <<session_state, uiPc, quizLog>>

vars == <<dbVars, apiVars, uiVars>>

----------------------------------------------------------------------------
(* Bounds of the model *)

MaxSessions == 2      \* sessions ever started
MaxProgress == 2      \* progress records ever saved
MaxTime == 2          \* days the clock advances
MaxDays == 1          \* largest days_old passed to cleanup_old_sessions
MaxCount == 2         \* largest question count in a progress record
MaxQuestions == 3     \* questions in a quiz submission
MaxLlmCalls == 2      \* LLM calls counted before the model stops taking requests
MaxEntities == 16     \* entities the NLP collaborator returns for one text
MaxQuestionCount == 4 \* largest questionCount of a question request
MaxContent == 11      \* content documents ever added
MaxViews == 1         \* views counted on one content document
MaxStoredQuestions == 1 \* questions ever added to the questions collection
MaxCalls == 3         \* update_question_stats calls counted on one question
MaxUsers == 1         \* users ever created
MaxRequests == 2      \* callers that run generate_content at the same time
MaxSnippets == 4      \* snippets one academic search returns
MaxCallers == 2       \* callers that run update_question_stats at the same time
MaxQuizLen == 2       \* questions of one dashboard quiz
MaxQuizzes == 2       \* quizzes generated in one dashboard session
MaxLines == 17        \* lines of a content text whose notes are extracted

\* default limits of the list reads
DefaultLimit == 10    \* get_content_by_subject, get_questions_by_topic
SessionsLimit == 20   \* get_user_sessions

----------------------------------------------------------------------------
(* Python values *)

None == <<>>

Some(v) == <<v>>

\* dict.get(key, default) on an optional value, the default being empty
GetOr(field) == IF field = None THEN <<>> ELSE field[1]

UpperLetters ==
    <<"A", "B", "C", "D", "E", "F", "G", "H", "I", "J", "K", "L", "M",
      "N", "O", "P", "Q", "R", "S", "T", "U", "V", "W", "X", "Y", "Z">>

LowerLetters ==
    <<"a", "b", "c", "d", "e", "f", "g", "h", "i", "j", "k", "l", "m",
      "n", "o", "p", "q", "r", "s", "t", "u", "v", "w", "x", "y", "z">>

\* str.lower() on one character
LowerChar(c) ==
    IF \E i \in 1..Len(UpperLetters) : UpperLetters[i] = c
    THEN LowerLetters[CHOOSE i \in 1..Len(UpperLetters) : UpperLetters[i] = c]
    ELSE c

Lower(s) == [i \in 1..Len(s) |-> LowerChar(s[i])]

\* characters str.strip() removes
IsSpace(c) == c \in {" ", "\t", "\n"}

RECURSIVE LStrip(_)
LStrip(s) == IF s # <<>> /\ IsSpace(Head(s)) THEN LStrip(Tail(s)) ELSE s

RECURSIVE RStrip(_)
RStrip(s) ==
    IF s # <<>> /\ IsSpace(s[Len(s)]) THEN RStrip(SubSeq(s, 1, Len(s) - 1)) ELSE s

Strip(s) == RStrip(LStrip(s))

\* the Python test  sub in s
Contains(s, sub) ==
    \E i \in 0..(Len(s) - Len(sub)) : SubSeq(s, i + 1, i + Len(sub)) = sub

\* the Python slice  s[:n]; a negative n counts from the end
Take(s, n) ==
    IF n >= 0 THEN SubSeq(s, 1, IF n < Len(s) THEN n ELSE Len(s))
    ELSE SubSeq(s, 1, IF Len(s) + n > 0 THEN Len(s) + n ELSE 0)

RECURSIVE Gcd(_, _)
Gcd(a, b) == IF b = 0 THEN a ELSE Gcd(b, a % b)

\* a float that is a ratio of small integers, in lowest terms
Ratio(n, d) == LET g == Gcd(n, d) IN [num |-> n \div g, den |-> d \div g]

\* what a collaborator call does: it returns a value or it raises
Ok(v) == [ok |-> TRUE, val |-> v]
Throw == [ok |-> FALSE, val |-> <<>>]

----------------------------------------------------------------------------
(* models/mongodb_models.py *)

Users == {"u1"}
Subjects == {<<"C", "S">>}
TopicsDB == {<<"P", "y">>}
Scores == {50, 90}
Durations == {10, 20}

SessionModelCreate(user_id, subject, topic, session_type, t) ==
    [user_id |-> user_id,
     subject |-> Lower(subject),
     topic |-> Lower(topic),
     session_type |-> session_type,
     start_time |-> Some(t),
     end_time |-> None,
     duration |-> 0,
     questions_answered |-> 0,
     correct_answers |-> 0,
     score |-> 0,
     status |-> "active"]

\* end_session that flags the session completed without stamping end_time
SessionModelEndNoStamp(final_score, duration, t) ==
    [end_time |-> None,
     duration |-> duration,
     score |-> final_score,
     status |-> "completed"]

\* the "$set" document of StudySessionModel.end_session
SessionModelEnd(final_score, duration, t) ==
    [end_time |-> Some(t),
     duration |-> duration,
     score |-> final_score,
     status |-> "completed"]

\* update_one with {"$set": upd} applied to one document
ApplySet(doc, upd) ==
    [f \in DOMAIN doc |-> IF f \in DOMAIN upd THEN upd[f] ELSE doc[f]]

\* the thresholds compared with > in place of >=
calculate_performance_level_strict(score) ==
    IF score > 90 THEN "excellent"
    ELSE IF score > 80 THEN "good"
    ELSE IF score > 70 THEN "satisfactory"
    ELSE IF score > 60 THEN "needs_improvement"
    ELSE "requires_attention"

calculate_performance_level(score) ==
    IF score >= 90 THEN "excellent"
    ELSE IF score >= 80 THEN "good"
    ELSE IF score >= 70 THEN "satisfactory"
    ELSE IF score >= 60 THEN "needs_improvement"
    ELSE "requires_attention"

ProgressModelCreate(user_id, subject, topic, score, total_questions, correct_answers, t) ==
    [user_id |-> user_id,
     subject |-> Lower(subject),
     topic |-> Lower(topic),
     score |-> score,
     total_questions |-> total_questions,
     correct_answers |-> correct_answers,
     time_spent |-> 0,
     difficulty |-> "medium",
     timestamp |-> Some(t),
     performance_level |-> calculate_performance_level(score)]

\* ContentModel.create_content; created_at is passed in by the service
ContentModelCreate(title, content, subject, topic, tags, t) ==
    [title |-> title,
     content |-> content,
     subject |-> Lower(subject),
     topic |-> Lower(topic),
     content_type |-> "lesson",
     difficulty |-> "intermediate",
     tags |-> GetOr(tags),
     created_at |-> t,
     views |-> 0]

\* the content_data dicts passed to add_content
ContentInputs ==
    {[title |-> "A", content |-> "body A", subject |-> <<"C", "S">>,
      topic |-> <<"P", "y">>, tags |-> Some(<<"intro">>)],
     [title |-> "B", content |-> "body B", subject |-> <<"C", "S">>,
      topic |-> <<"P", "y">>, tags |-> None]}

\* the subjects content is asked for
QuerySubjects == {<<"C", "S">>, <<"c", "s">>, <<"B", "i", "o">>}

\* the content ids whose views are counted
ViewedIds == {1, 2}

\* scores on both sides of every performance-level threshold
BucketScores == {59, 60, 69, 70, 79, 80, 89, 90}

\* the progress_data dicts passed to save_user_progress: at one score every
\* total with no or MaxCount correct answers, and every threshold score at
\* one pair of counts
ProgressInputs ==
    [score : {50}, total_questions : 0..MaxCount, correct_answers : {0, MaxCount}]
      \cup [score : BucketScores, total_questions : {1}, correct_answers : {1}]

\* QuestionModel.create_question: no correct_count field, a zero success_rate
QuestionModelCreate(question, question_type, subject, topic, difficulty, bloom_level, correct_answer, t) ==
    [question |-> question,
     question_type |-> Lower(question_type),
     subject |-> Lower(subject),
     topic |-> Lower(topic),
     difficulty |-> Lower(difficulty),
     bloom_level |-> Lower(bloom_level),
     correct_answer |-> correct_answer,
     created_at |-> Some(t),
     usage_count |-> 0,
     correct_count |-> None,
     total_time |-> None,
     success_rate |-> Ratio(0, 1),
     average_time |-> 0]

\* the question_data dicts passed to add_question
QuestionInputs ==
    {[question |-> "What is a list?", question_type |-> <<"M", "C">>,
      subject |-> <<"C", "S">>, topic |-> <<"P", "y">>,
      difficulty |-> <<"H", "a", "r", "d">>, bloom_level |-> <<"A", "p", "p", "l", "y">>,
      correct_answer |-> "A sequence"]}

\* dict.get(key, 0) on a counter that "$inc" creates
GetCount(field) == IF field = None THEN 0 ELSE field[1]

\* the time_taken values passed to update_question_stats
TimesTaken == {5}

\* UserModel.create_user: learning_preferences or the default preferences
UserModelCreate(username, email, learning_preferences, t) ==
    [username |-> username,
     email |-> email,
     learning_preferences |->
        IF learning_preferences = None
        THEN [difficulty_preference |-> "medium", learning_style |-> "visual",
              daily_goal |-> 30]
        ELSE learning_preferences[1],
     created_at |-> Some(t),
     last_login |-> Some(t),
     total_study_time |-> 0]

Preferences ==
    {[difficulty_preference |-> "hard", learning_style |-> "auditory", daily_goal |-> 60]}

\* the user_data dicts passed to create_user
UserInputs ==
    [username : {"ann"}, email : {"ann@example.org"},
     learning_preferences : {None} \cup {Some(p) : p \in Preferences}]

----------------------------------------------------------------------------
(* services/mongodb_service.py *)

\* no call is in progress: the last result has been handed to the caller
Idle == [op |-> "idle"]

\* a list returned by a read
List(s) == [list |-> s]

\* cursor.sort(key, -1) over the documents numbered S: the larger key first,
\* among equal keys the later insert first
SortDesc(S, key) ==
    [k \in 1..Cardinality(S) |->
       CHOOSE x \in S :
          Cardinality({y \in S : key[y] > key[x] \/ (key[y] = key[x] /\ y > x)}) = k - 1]

\* what a driver call does in this call: the unreachable database raises on
\* every call, the reachable one may still raise
Raises == IF driverUp THEN BOOLEAN ELSE {TRUE}

\* the try body ran to its return statement
Returned(v) == [ret |-> v, escaped |-> FALSE]

\* a service method without its try/except: the exception reaches the caller
Uncaught(sentinel) == [ret |-> sentinel, escaped |-> TRUE]

\* except Exception as e: print(...); return <sentinel>
Caught(sentinel) == [ret |-> sentinel, escaped |-> FALSE]

(* Content Management *)

\* insert_one appends; created_at is utcnow() at the insert, which grows
\* from one insert to the next: it is kept as the position in insertion order
add_content ==
    /\ dbOp = Idle
    /\ Len(content_collection) < MaxContent
    /\ \E d \in ContentInputs, raises \in Raises :
         \E r \in {IF raises THEN Caught(None) ELSE Returned(Some(Len(content_collection) + 1))} :
            /\ content_collection' = IF raises THEN content_collection
                          ELSE Append(content_collection,
                                      ContentModelCreate(d.title, d.content, d.subject,
                                                         d.topic, d.tags, Len(content_collection) + 1))
            /\ dbOp' = [op |-> "add_content", content_data |-> d, raised |-> raises,
                        ret |-> r.ret, escaped |-> r.escaped]
    /\ UNCHANGED <<sessions, nextId, progress, now, questions_collection, statCalls, users_collection,
                   driverUp, statsInFlight, apiVars, uiVars>>

\* find({"subject": subject.lower()}).sort("created_at", -1).limit(limit)
FindContentBySubject(subject, limit) ==
    LET found == {i \in 1..Len(content_collection) : content_collection[i].subject = Lower(subject)}
        newestFirst == SortDesc(found, [i \in found |-> content_collection[i].created_at])
    IN Take([k \in 1..Len(newestFirst) |-> content_collection[newestFirst[k]]], limit)

get_content_by_subject ==
    /\ dbOp = Idle
    /\ \E subject \in QuerySubjects, raises \in Raises :
         \E r \in {IF raises THEN Caught(List(<<>>))
                   ELSE Returned(List(FindContentBySubject(subject, DefaultLimit)))} :
            dbOp' = [op |-> "get_content_by_subject", subject |-> subject,
                     raised |-> raises, ret |-> r.ret, escaped |-> r.escaped]
    /\ UNCHANGED <<sessions, nextId, progress, now, storeVars, driverUp, statsInFlight, apiVars, uiVars>>

\* update_one({"_id": id}, {"$inc": {"views": 1}}); no document, no update
update_content_views ==
    /\ dbOp = Idle
    /\ \E content_id \in ViewedIds, raises \in Raises :
         /\ content_id \in 1..Len(content_collection) => content_collection[content_id].views < MaxViews
         /\ \E r \in {IF raises THEN Caught(None) ELSE Returned(None)} :
              /\ content_collection' = IF ~raises /\ content_id \in 1..Len(content_collection)
                            THEN [content_collection EXCEPT ![content_id].views = @ + 1]
                            ELSE content_collection
              /\ dbOp' = [op |-> "update_content_views", content_id |-> content_id,
                          raised |-> raises, ret |-> r.ret, escaped |-> r.escaped]
    /\ UNCHANGED <<sessions, nextId, progress, now, questions_collection, statCalls, users_collection,
                   driverUp, statsInFlight, apiVars, uiVars>>

(* User Progress Management *)

save_user_progress ==
    /\ dbOp = Idle
    /\ Len(progress) < MaxProgress
    /\ \E u \in Users, s \in Subjects, tp \in TopicsDB, d \in ProgressInputs,
          raises \in Raises :
         \E r \in {IF raises THEN Caught(None) ELSE Returned(Some(Len(progress) + 1))} :
            /\ progress' = IF raises THEN progress
                           ELSE Append(progress,
                                       ProgressModelCreate(u, s, tp, d.score,
                                                           d.total_questions,
                                                           d.correct_answers, now))
            /\ dbOp' = [op |-> "save_user_progress", progress_data |-> d,
                        raised |-> raises, ret |-> r.ret, escaped |-> r.escaped]
    /\ UNCHANGED <<sessions, nextId, now, storeVars, driverUp, statsInFlight, apiVars, uiVars>>

\* find({"user_id": u[, "subject": s.lower()]}).sort("timestamp", -1)
FindUserProgress(user_id, subject) ==
    LET found == {i \in 1..Len(progress) :
                    /\ progress[i].user_id = user_id
                    /\ subject # None => progress[i].subject = Lower(subject[1])}
        newestFirst == SortDesc(found, [i \in found |-> progress[i].timestamp[1]])
    IN [k \in 1..Len(newestFirst) |-> progress[newestFirst[k]]]

get_user_progress ==
    /\ dbOp = Idle
    /\ \E u \in Users, subject \in {None} \cup {Some(s) : s \in Subjects}, raises \in Raises :
         \E r \in {IF raises THEN Caught(List(<<>>))
                   ELSE Returned(List(FindUserProgress(u, subject)))} :
            dbOp' = [op |-> "get_user_progress", user_id |-> u, subject |-> subject,
                     raised |-> raises, ret |-> r.ret, escaped |-> r.escaped]
    /\ UNCHANGED <<sessions, nextId, progress, now, storeVars, driverUp, statsInFlight, apiVars, uiVars>>

RECURSIVE SumOf(_, _)
SumOf(docs, field) ==
    IF docs = <<>> THEN 0 ELSE Head(docs)[field] + SumOf(Tail(docs), field)

RECURSIVE MaxOf(_, _)
MaxOf(docs, field) ==
    IF Len(docs) = 1 THEN docs[1][field]
    ELSE LET m == MaxOf(Tail(docs), field)
         IN IF docs[1][field] > m THEN docs[1][field] ELSE m

\* the "$group" stage for one subject
SubjectGroup(subject, docs) ==
    [_id |-> subject,
     total_sessions |-> Len(docs),
     average_score |-> Ratio(SumOf(docs, "score"), Len(docs)),
     best_score |-> MaxOf(docs, "score"),
     total_questions |-> SumOf(docs, "total_questions"),
     total_correct |-> SumOf(docs, "correct_answers"),
     total_time |-> SumOf(docs, "time_spent")]

\* aggregate([$match user, $group by subject, $sort average_score desc])
PerformanceSummary(user_id) ==
    LET mine == SelectSeq(progress, LAMBDA d : d.user_id = user_id)
        subjects == {mine[i].subject : i \in 1..Len(mine)}
        group(s) == SubjectGroup(s, SelectSeq(mine, LAMBDA d : d.subject = s))
        above(a, b) == group(a).average_score.num * group(b).average_score.den
                         > group(b).average_score.num * group(a).average_score.den
        best == [k \in 1..Cardinality(subjects) |->
                   CHOOSE x \in subjects :
                      Cardinality({y \in subjects : above(y, x)}) = k - 1]
    IN [k \in 1..Len(best) |-> group(best[k])]

get_user_performance_summary ==
    /\ dbOp = Idle
    /\ \E u \in Users, raises \in Raises :
         \E r \in {IF raises THEN Caught(List(<<>>))
                   ELSE Returned(List(PerformanceSummary(u)))} :
            dbOp' = [op |-> "get_user_performance_summary", user_id |-> u,
                     raised |-> raises, ret |-> r.ret, escaped |-> r.escaped]
    /\ UNCHANGED <<sessions, nextId, progress, now, storeVars, driverUp, statsInFlight, apiVars, uiVars>>

(* Question Management *)

add_question ==
    /\ dbOp = Idle
    /\ Len(questions_collection) < MaxStoredQuestions
    /\ \E q \in QuestionInputs, raises \in Raises :
         \E r \in {IF raises THEN Caught(None) ELSE Returned(Some(Len(questions_collection) + 1))} :
            /\ questions_collection' = IF raises THEN questions_collection
                            ELSE Append(questions_collection,
                                        QuestionModelCreate(q.question, q.question_type,
                                                            q.subject, q.topic, q.difficulty,
                                                            q.bloom_level, q.correct_answer,
                                                            now))
            /\ statCalls' = IF raises THEN statCalls
                            ELSE Append(statCalls, [calls |-> 0, correct |-> 0, clean |-> TRUE])
            /\ dbOp' = [op |-> "add_question", question_data |-> q, raised |-> raises,
                        ret |-> r.ret, escaped |-> r.escaped]
    /\ UNCHANGED <<sessions, nextId, progress, now, content_collection, users_collection, driverUp, statsInFlight, apiVars, uiVars>>

\* find({"subject": ..., "topic": ...[, "difficulty": ...]}).limit(limit)
FindQuestionsByTopic(subject, topic, difficulty, limit) ==
    Take(SelectSeq(questions_collection,
                   LAMBDA q : /\ q.subject = Lower(subject)
                              /\ q.topic = Lower(topic)
                              /\ difficulty # None => q.difficulty = Lower(difficulty[1])),
         limit)

get_questions_by_topic ==
    /\ dbOp = Idle
    /\ \E s \in Subjects, tp \in TopicsDB, difficulty \in {None, Some(<<"H", "a", "r", "d">>)},
          raises \in Raises :
         \E r \in {IF raises THEN Caught(List(<<>>))
                   ELSE Returned(List(FindQuestionsByTopic(s, tp, difficulty, DefaultLimit)))} :
            dbOp' = [op |-> "get_questions_by_topic", difficulty |-> difficulty,
                     raised |-> raises, ret |-> r.ret, escaped |-> r.escaped]
    /\ UNCHANGED <<sessions, nextId, progress, now, storeVars, driverUp, statsInFlight, apiVars, uiVars>>

\* the first update_one: {"$inc": {"usage_count": 1, "total_time": t[, "correct_count": 1]}};
\* $inc on a missing field sets it
IncStats(doc, is_correct, time_taken) ==
    [doc EXCEPT !.usage_count = @ + 1,
                !.total_time = Some(GetCount(@) + time_taken),
                !.correct_count = IF is_correct THEN Some(GetCount(@) + 1) ELSE @]

\* question.get("correct_count", 0) / question["usage_count"]
SuccessRate(question) == Ratio(GetCount(question.correct_count), question.usage_count)

\* update_question_stats that reads the question before it counts the call
StatsAfterStaleRead(doc, is_correct, time_taken, fails) ==
    IF fails = 1 THEN doc
    ELSE LET question == IncStats(doc, is_correct, time_taken)
         IN IF fails \in {2, 3} \/ ~(doc.usage_count > 0) THEN question
            ELSE [question EXCEPT !.success_rate = SuccessRate(doc)]

\* the three driver calls of update_question_stats, of which the one numbered
\* fails (0: none) raises: update_one, find_one, update_one
StatsAfter(doc, is_correct, time_taken, fails) ==
    IF fails = 1 THEN doc
    ELSE LET question == IncStats(doc, is_correct, time_taken)
         IN IF fails \in {2, 3} \/ ~(question.usage_count > 0) THEN question
            ELSE [question EXCEPT !.success_rate = SuccessRate(question)]

update_question_stats ==
    /\ dbOp = Idle
    /\ \E question_id \in 1..MaxStoredQuestions, is_correct \in BOOLEAN,
          time_taken \in TimesTaken, fails \in (IF driverUp THEN 0..3 ELSE {1}) :
         LET found == question_id \in 1..Len(questions_collection)
         IN /\ found => statCalls[question_id].calls < MaxCalls
            /\ \E r \in {IF fails # 0 THEN Caught(None) ELSE Returned(None)} :
                 /\ questions_collection' =
                      IF found
                      THEN [questions_collection EXCEPT
                              ![question_id] = StatsAfter(@, is_correct, time_taken, fails)]
                      ELSE questions_collection
                 /\ statCalls' =
                      IF found
                      THEN [statCalls EXCEPT
                              ![question_id] =
                                 [calls |-> @.calls + 1,
                                  correct |-> @.correct + (IF is_correct THEN 1 ELSE 0),
                                  clean |-> @.clean /\ fails = 0]]
                      ELSE statCalls
                 /\ dbOp' = [op |-> "update_question_stats", question_id |-> question_id,
                             is_correct |-> is_correct, raised |-> fails # 0,
                             ret |-> r.ret, escaped |-> r.escaped]
    /\ UNCHANGED <<sessions, nextId, progress, now, content_collection, users_collection, driverUp, statsInFlight, apiVars, uiVars>>

(* User Management *)

create_user ==
    /\ dbOp = Idle
    /\ Len(users_collection) < MaxUsers
    /\ \E d \in UserInputs, raises \in Raises :
         \E r \in {IF raises THEN Caught(None) ELSE Returned(Some(Len(users_collection) + 1))} :
            /\ users_collection' = IF raises THEN users_collection
                        ELSE Append(users_collection,
                                    UserModelCreate(d.username, d.email,
                                                    d.learning_preferences, now))
            /\ dbOp' = [op |-> "create_user", user_data |-> d, raised |-> raises,
                        ret |-> r.ret, escaped |-> r.escaped]
    /\ UNCHANGED <<sessions, nextId, progress, now, content_collection, questions_collection, statCalls,
                   driverUp, statsInFlight, apiVars, uiVars>>

\* find_one({"_id": id}): the document, or None when there is none
get_user ==
    /\ dbOp = Idle
    /\ \E user_id \in 1..MaxUsers, raises \in Raises :
         \E r \in {IF raises THEN Caught(None)
                   ELSE Returned(IF user_id \in 1..Len(users_collection) THEN Some(users_collection[user_id])
                                 ELSE None)} :
            dbOp' = [op |-> "get_user", user_id |-> user_id, raised |-> raises,
                     ret |-> r.ret, escaped |-> r.escaped]
    /\ UNCHANGED <<sessions, nextId, progress, now, storeVars, driverUp, statsInFlight, apiVars, uiVars>>

update_user_preferences ==
    /\ dbOp = Idle
    /\ \E user_id \in 1..MaxUsers, preferences \in Preferences, raises \in Raises :
         \E r \in {IF raises THEN Caught(None) ELSE Returned(None)} :
            /\ users_collection' = IF ~raises /\ user_id \in 1..Len(users_collection)
                        THEN [users_collection EXCEPT ![user_id].learning_preferences = preferences]
                        ELSE users_collection
            /\ dbOp' = [op |-> "update_user_preferences", user_id |-> user_id,
                        preferences |-> preferences, raised |-> raises,
                        ret |-> r.ret, escaped |-> r.escaped]
    /\ UNCHANGED <<sessions, nextId, progress, now, content_collection, questions_collection, statCalls,
                   driverUp, statsInFlight, apiVars, uiVars>>

(* Study Session Management *)

start_study_session ==
    /\ dbOp = Idle
    /\ nextId <= MaxSessions
    /\ \E u \in Users, s \in Subjects, tp \in TopicsDB, raises \in Raises :
         \E r \in {IF raises THEN Caught(None) ELSE Returned(Some(nextId))} :
            /\ sessions' = IF raises THEN sessions
                           ELSE [i \in DOMAIN sessions \cup {nextId} |->
                                   IF i = nextId
                                   THEN SessionModelCreate(u, s, tp, "practice", now)
                                   ELSE sessions[i]]
            /\ nextId' = IF raises THEN nextId ELSE nextId + 1
            /\ dbOp' = [op |-> "start_study_session", raised |-> raises,
                        ret |-> r.ret, escaped |-> r.escaped]
    /\ UNCHANGED <<progress, now, storeVars, driverUp, statsInFlight, apiVars, uiVars>>

\* update_one({"_id": id}, {"$set": ...}): the filter is the id alone; an id
\* that matches no document updates nothing
end_study_session ==
    /\ dbOp = Idle
    /\ \E id \in 1..MaxSessions, fs \in Scores, d \in Durations, raises \in Raises :
         \E r \in {IF raises THEN Caught(None) ELSE Returned(None)} :
            /\ sessions' = IF ~raises /\ id \in DOMAIN sessions
                           THEN [sessions EXCEPT ![id] = ApplySet(@, SessionModelEnd(fs, d, now))]
                           ELSE sessions
            /\ dbOp' = [op |-> "end_study_session", id |-> id, final_score |-> fs,
                        duration |-> d, raised |-> raises,
                        ret |-> r.ret, escaped |-> r.escaped]
    /\ UNCHANGED <<nextId, progress, now, storeVars, driverUp, statsInFlight, apiVars, uiVars>>

\* find({"user_id": u}).sort("start_time", -1).limit(limit)
FindUserSessions(user_id, limit) ==
    LET found == {i \in DOMAIN sessions : sessions[i].user_id = user_id}
        newestFirst == SortDesc(found, [i \in found |-> sessions[i].start_time[1]])
    IN Take([k \in 1..Len(newestFirst) |-> sessions[newestFirst[k]]], limit)

get_user_sessions ==
    /\ dbOp = Idle
    /\ \E u \in Users, raises \in Raises :
         \E r \in {IF raises THEN Caught(List(<<>>))
                   ELSE Returned(List(FindUserSessions(u, SessionsLimit)))} :
            dbOp' = [op |-> "get_user_sessions", user_id |-> u, raised |-> raises,
                     ret |-> r.ret, escaped |-> r.escaped]
    /\ UNCHANGED <<sessions, nextId, progress, now, storeVars, driverUp, statsInFlight, apiVars, uiVars>>

(* Database Maintenance *)

\* delete_many({"status": "completed", "end_time": {"$lt": cutoff}})
\* a filter with "$lte" in place of "$lt"
CleanupMatchesInclusive(doc, cutoff) ==
    /\ doc.status = "completed"
    /\ doc.end_time # None
    /\ doc.end_time[1] <= cutoff

CleanupMatches(doc, cutoff) ==
    /\ doc.status = "completed"
    /\ doc.end_time # None
    /\ doc.end_time[1] < cutoff

\* a cleanup that also deletes the progress records older than the cutoff
cleanup_old_sessions_and_progress ==
    /\ dbOp = Idle
    /\ \E days_old \in 0..MaxDays, raises \in Raises :
         LET cutoff == now - days_old
             keep == {i \in DOMAIN sessions : ~CleanupMatches(sessions[i], cutoff)}
         IN /\ sessions' = IF raises THEN sessions ELSE [i \in keep |-> sessions[i]]
            /\ progress' = IF raises THEN progress
                           ELSE SelectSeq(progress, LAMBDA d : ~(d.timestamp[1] < cutoff))
            /\ dbOp' = [op |-> "cleanup_old_sessions", days_old |-> days_old,
                        raised |-> raises, ret |-> None, escaped |-> FALSE]
    /\ UNCHANGED <<nextId, now, storeVars, driverUp, statsInFlight, apiVars, uiVars>>

cleanup_old_sessions ==
    /\ dbOp = Idle
    /\ \E days_old \in 0..MaxDays, raises \in Raises :
         LET cutoff == now - days_old
             keep == {i \in DOMAIN sessions : ~CleanupMatches(sessions[i], cutoff)}
         IN \E r \in {IF raises THEN Caught(None) ELSE Returned(None)} :
              /\ sessions' = IF raises THEN sessions ELSE [i \in keep |-> sessions[i]]
              /\ dbOp' = [op |-> "cleanup_old_sessions", days_old |-> days_old,
                          raised |-> raises, ret |-> r.ret, escaped |-> r.escaped]
    /\ UNCHANGED <<nextId, progress, now, storeVars, driverUp, statsInFlight, apiVars, uiVars>>

\* the wall clock moves between calls
Tick ==
    /\ dbOp = Idle
    /\ now < MaxTime
    /\ now' = now + 1
    /\ UNCHANGED <<sessions, nextId, progress, dbOp, storeVars, driverUp, statsInFlight, apiVars, uiVars>>

\* the service method returns to its caller
Return ==
    /\ dbOp # Idle
    /\ dbOp' = Idle
    /\ UNCHANGED <<sessions, nextId, progress, now, storeVars, driverUp, statsInFlight, apiVars, uiVars>>

----------------------------------------------------------------------------
(* services/mongodb_service.py: update_question_stats calls that overlap *)

\* The service object is shared by every caller and the calls carry no lock:
\* between the three driver calls of one update_question_stats another
\* caller's driver calls may run.  Each driver call is atomic in the server.

NotCalling == [pc |-> "idle"]

\* self.questions_collection.update_one({"_id": ...}, {"$inc": update_data})
StatsIncrement ==
    /\ driverUp
    /\ \E c \in 1..MaxCallers, question_id \in 1..Len(questions_collection),
          is_correct \in BOOLEAN, time_taken \in TimesTaken :
         /\ statsInFlight[c].pc = "idle"
         /\ statCalls[question_id].calls < MaxCalls
         /\ questions_collection' =
              [questions_collection EXCEPT
                 ![question_id] = IncStats(@, is_correct, time_taken)]
         /\ statCalls' =
              [statCalls EXCEPT
                 ![question_id] =
                    [calls |-> @.calls + 1,
                     correct |-> @.correct + (IF is_correct THEN 1 ELSE 0),
                     clean |-> @.clean]]
         /\ statsInFlight' =
              [statsInFlight EXCEPT
                 ![c] = [pc |-> "find", question_id |-> question_id]]
    /\ UNCHANGED <<sessions, nextId, progress, now, dbOp, content_collection,
                   users_collection, driverUp, apiVars, uiVars>>

\* question = self.questions_collection.find_one({"_id": ObjectId(question_id)})
StatsFind ==
    /\ \E c \in 1..MaxCallers :
         /\ statsInFlight[c].pc = "find"
         /\ statsInFlight' =
              [statsInFlight EXCEPT
                 ![c] = [pc |-> "set", question_id |-> @.question_id,
                         question |-> questions_collection[@.question_id]]]
    /\ UNCHANGED <<sessions, nextId, progress, now, dbOp, storeVars, driverUp, apiVars, uiVars>>

\* if question and question.get("usage_count", 0) > 0: update_one({"$set":
\* {"success_rate": success_rate}}) with the rate of the document read
StatsSetRate ==
    /\ \E c \in 1..MaxCallers :
         /\ statsInFlight[c].pc = "set"
         /\ LET question == statsInFlight[c].question
            IN questions_collection' =
                 IF question.usage_count > 0
                 THEN [questions_collection EXCEPT
                         ![statsInFlight[c].question_id].success_rate =
                            SuccessRate(question)]
                 ELSE questions_collection
         /\ statsInFlight' = [statsInFlight EXCEPT ![c] = NotCalling]
    /\ UNCHANGED <<sessions, nextId, progress, now, dbOp, content_collection, statCalls,
                   users_collection, driverUp, apiVars, uiVars>>

----------------------------------------------------------------------------
(* agents/content_generator.py *)

\* A text is the sequence of its lines.  A line keeps what the code looks at:
\* its length after strip(), whether it holds a period, its heading level
\* (number of leading #), the phrases it marks **bold** in a * bullet, and
\* whether it holds one of the objective keywords of the API's extractor.
Line(text, len, period, level) ==
    [text |-> text, len |-> len, period |-> period, level |-> level,
     bold |-> <<>>, objective |-> FALSE]

Blank == Line("", 0, FALSE, 0)

FailText == <<Line("Content generation failed", 25, FALSE, 0)>>

\* texts the LLM answers with
DraftTexts ==
    {<<Line("## Overview", 11, FALSE, 2),
       [Line("You will learn how cells divide.", 32, TRUE, 0) EXCEPT !.objective = TRUE],
       Line("Cells divide in two stages.", 27, TRUE, 0)>>}

TrustKeywords == {"academic", "peer-reviewed", "textbook", "educational", "university"}

\* a retrieved snippet, with the trust keywords found in its lowercased title and content
Snippet(title, content, found) == [title |-> title, content |-> content, found |-> found]

SearchResults ==
    {<<>>,
     <<Snippet("t1", "c1", {"academic", "textbook"}), Snippet("t2", "c2", {})>>}

RECURSIVE SumFound(_)
SumFound(srcs) ==
    IF srcs = <<>> THEN 0
    ELSE Cardinality(Head(srcs).found \cap TrustKeywords) + SumFound(Tail(srcs))

assess_source_quality(srcs) ==
    IF srcs = <<>> THEN Ratio(0, 1)
    ELSE LET total == SumFound(srcs)
             n == Cardinality(TrustKeywords) * Len(srcs)
         IN IF total > n THEN Ratio(1, 1) ELSE Ratio(total, n)

\* a retrieval whose except branch scores the empty result as the empty set
retrieve_reliable_sources_zero_default(academic, web) ==
    IF academic.ok /\ web.ok
    THEN Ok([academic |-> Take(academic.val, 3),
             educational |-> Take(web.val, 3),
             quality_score |-> assess_source_quality(academic.val \o web.val)])
    ELSE Ok([academic |-> <<>>, educational |-> <<>>, quality_score |-> Ratio(0, 1)])

\* a retrieval that scores the snippets it keeps
retrieve_reliable_sources_scores_kept(academic, web) ==
    IF academic.ok /\ web.ok
    THEN Ok([academic |-> Take(academic.val, 3),
             educational |-> Take(web.val, 3),
             quality_score |->
                assess_source_quality(Take(academic.val, 3) \o Take(web.val, 3))])
    ELSE Ok([academic |-> <<>>, educational |-> <<>>, quality_score |-> Ratio(1, 2)])

\* two searches inside one try; any exception gives the neutral default
retrieve_reliable_sources(academic, web) ==
    IF academic.ok /\ web.ok
    THEN Ok([academic |-> Take(academic.val, 3),
             educational |-> Take(web.val, 3),
             quality_score |-> assess_source_quality(academic.val \o web.val)])
    ELSE Ok([academic |-> <<>>, educational |-> <<>>, quality_score |-> Ratio(1, 2)])

\* the context string: one labelled block per source, academic first
gather_enhanced_context(sources) ==
    Ok([i \in 1..Len(sources.academic) |->
          [label |-> "Academic Source", title |-> sources.academic[i].title,
           content |-> sources.academic[i].content]]
       \o
       [i \in 1..Len(sources.educational) |->
          [label |-> "Educational Source", title |-> sources.educational[i].title,
           content |-> sources.educational[i].content]])

ContentStyles == {"Study Notes", "Tutorial", "Explanation", "Summary", "Comprehensive Guide"}

\* a drafting step that calls the LLM a second time when the first call raises
generate_with_retry(topic, difficulty, subject, content_type, context, learning_objectives, llm) ==
    IF ~llm.ok THEN [ok |-> FALSE, val |-> <<>>, calls |-> 2]
    ELSE [ok |-> TRUE,
          val |-> [kind |-> "draft", lines |-> IF llm.val = <<>> THEN FailText ELSE llm.val],
          calls |-> 1]

\* builds the prompt and calls self.model.generate_content once; nothing
\* here catches an exception of that call.  calls = LLM calls made.
generate_student_friendly_content(topic, difficulty, subject, content_type, context, learning_objectives, llm) ==
    LET prompt == [topic |-> topic, difficulty |-> difficulty, subject |-> subject,
                   style |-> IF content_type \in ContentStyles
                             THEN content_type ELSE "Study Notes",
                   objectives |-> learning_objectives, context |-> context]
    IN IF ~llm.ok THEN [ok |-> FALSE, val |-> <<>>, calls |-> 1]
       ELSE [ok |-> TRUE,
             val |-> [kind |-> "draft",
                      lines |-> IF llm.val = <<>> THEN FailText ELSE llm.val],
             calls |-> 1]

\* an entity of the NLP collaborator; text is None when it is not a string
Entity(text) == [text |-> text, label |-> "CONCEPT"]

Ents(n) == [i \in 1..n |-> Entity(Some(ToString(i)))]

EntityLists == {Ents(0), <<Entity(None)>>, Ents(MaxEntities)}

KeyTermLists == {<<"mitosis", "cell">>}

Summaries == {Line("Cells divide.", 13, TRUE, 0)}

Texts(ents) == [i \in 1..Len(ents) |-> ents[i].text]

\* ', '.join(...) raises TypeError on an item that is not a string
JoinRaises(texts) == \E i \in 1..Len(texts) : texts[i] = None

\* an enrichment whose except branch keeps the heading and the trailer
advanced_nlp_processing_keeps_frame(content, topic, ents, terms, summary) ==
    IF /\ ents.ok
       /\ terms.ok
       /\ summary.ok
       /\ ~JoinRaises(Texts(Take(ents.val, 10)))
    THEN Ok([kind |-> "enhanced",
             topic |-> topic,
             body |-> content,
             summary |-> summary.val,
             key_terms |-> Take(terms.val, 15),
             concepts |-> Texts(Take(ents.val, 10))])
    ELSE Ok([kind |-> "enhanced", topic |-> topic, body |-> content,
             summary |-> Blank, key_terms |-> <<>>, concepts |-> <<>>])

advanced_nlp_processing(content, topic, ents, terms, summary) ==
    IF /\ ents.ok
       /\ terms.ok
       /\ summary.ok
       /\ ~JoinRaises(Texts(Take(ents.val, 10)))
    THEN Ok([kind |-> "enhanced",
             topic |-> topic,
             body |-> content,
             summary |-> summary.val,
             key_terms |-> Take(terms.val, 15),
             concepts |-> Texts(Take(ents.val, 10))])
    ELSE Ok(content)

\* length of ', '.join(items), every item taken as a four-letter word
JoinLen(items) == IF items = <<>> THEN 0 ELSE Len(items) * 6 - 2

\* the lines of a content value: the draft as the LLM wrote it, or the
\* f-string of _advanced_nlp_processing around it
RECURSIVE Lines(_)
Lines(content) ==
    IF content.kind = "draft" THEN content.lines
    ELSE <<Line("# topic", 2 + Len(content.topic), FALSE, 1), Blank>>
         \o Lines(content.body)
         \o <<Blank, Line("---", 3, FALSE, 0), Blank,
              Line("## Executive Summary", 22, FALSE, 2),
              content.summary, Blank,
              Line("## Key Terms Identified", 25, FALSE, 2),
              Line("key terms", JoinLen(content.key_terms), FALSE, 0), Blank,
              Line("## Important Concepts", 23, FALSE, 2),
              Line("concepts", JoinLen(content.concepts), FALSE, 0), Blank,
              Line("## Learning Objectives", 24, FALSE, 2),
              [Line("- Understand the fundamental concepts of topic",
                    41 + Len(content.topic), FALSE, 0) EXCEPT !.objective = TRUE],
              [Line("- Apply knowledge in practical scenarios", 39, FALSE, 0)
                 EXCEPT !.objective = TRUE],
              [Line("- Identify key relationships and connections", 44, FALSE, 0)
                 EXCEPT !.objective = TRUE],
              [Line("- Analyze real-world applications", 33, FALSE, 0)
                 EXCEPT !.objective = TRUE],
              Blank>>

BulletWorthy(line) ==
    /\ line.len > 0
    /\ line.len > 20
    /\ line.level = 0
    /\ line.period
    /\ line.len < 200

\* bullet notes that keep every line that qualifies
create_bullet_notes_uncapped(content) ==
    LET bullet_notes == SelectSeq(Lines(content), BulletWorthy)
    IN [i \in 1..Len(bullet_notes) |-> [bullet |-> bullet_notes[i].text]]

create_bullet_notes(content) ==
    LET bullet_notes == SelectSeq(Lines(content), BulletWorthy)
    IN [i \in 1..Len(Take(bullet_notes, 15)) |-> [bullet |-> bullet_notes[i].text]]

AnyWord(topic, words) == \E w \in words : Contains(Lower(topic), w)

ProcessWords ==
    {<<"p", "r", "o", "c", "e", "s", "s">>, <<"c", "y", "c", "l", "e">>,
     <<"s", "t", "e", "p", "s">>}

StructureWords ==
    {<<"s", "t", "r", "u", "c", "t", "u", "r", "e">>, <<"a", "n", "a", "t", "o", "m", "y">>,
     <<"p", "a", "r", "t", "s">>}

CompareWords ==
    {<<"c", "o", "m", "p", "a", "r", "e">>, <<"v", "s">>,
     <<"d", "i", "f", "f", "e", "r", "e", "n", "c", "e">>}

\* suggestions in which the infographic comes first
suggest_diagrams_infographic_first(topic, entities) ==
    LET suggestions ==
            <<"Summary Infographic">>
            \o (IF AnyWord(topic, ProcessWords) THEN <<"Process Flow Diagram">> ELSE <<>>)
            \o (IF AnyWord(topic, StructureWords) THEN <<"Labeled Diagram">> ELSE <<>>)
            \o (IF AnyWord(topic, CompareWords) THEN <<"Comparison Chart">> ELSE <<>>)
            \o (IF Len(entities) > 5 THEN <<"Mind Map", "Concept Map">> ELSE <<>>)
    IN Take(suggestions, 3)

suggest_diagrams(topic, entities) ==
    LET suggestions ==
            (IF AnyWord(topic, ProcessWords) THEN <<"Process Flow Diagram">> ELSE <<>>)
            \o (IF AnyWord(topic, StructureWords) THEN <<"Labeled Diagram">> ELSE <<>>)
            \o (IF AnyWord(topic, CompareWords) THEN <<"Comparison Chart">> ELSE <<>>)
            \o (IF Len(entities) > 5 THEN <<"Mind Map", "Concept Map">> ELSE <<>>)
            \o <<"Summary Infographic">>
    IN Take(suggestions, 3)

\* study materials built without the try/except around the collaborator calls
create_study_materials_unguarded(content, topic, ents, terms) ==
    IF ents.ok /\ terms.ok
    THEN Ok([flashcards |-> <<>>,
             key_concepts |-> Texts(Take(ents.val, 15)),
             learning_objectives |-> <<Some("Define and explain topic")>>,
             study_notes |-> <<>>,
             diagram_suggestions |-> <<>>])
    ELSE Throw

\* the whole body is inside try/except: a raising collaborator gives the
\* empty materials
create_study_materials(content, topic, ents, terms) ==
    IF ents.ok /\ terms.ok
    THEN Ok([flashcards |->
               [i \in 1..Len(Take(ents.val, 10)) |->
                  [term |-> ents.val[i].text,
                   definition |-> "Key concept in topic",
                   category |-> ents.val[i].label]],
             key_concepts |-> Texts(Take(ents.val, 15)),
             learning_objectives |->
               <<Some("Define and explain topic"),
                 Some("Identify key components of topic"),
                 Some("Apply topic concepts to real-world scenarios"),
                 Some("Analyze relationships within topic")>>,
             study_notes |-> create_bullet_notes(content),
             diagram_suggestions |-> suggest_diagrams(topic, ents.val)])
    ELSE Ok([flashcards |-> <<>>,
             key_concepts |-> <<>>,
             learning_objectives |-> <<>>,
             study_notes |-> <<>>,
             diagram_suggestions |-> <<>>])

\* what the collaborators do during one generate_content call
ContentEnvs(key) ==
    [academic : {Throw} \cup {Ok(r) : r \in SearchResults},
     web : {Throw, Ok(<<>>)},
     llm : IF key THEN {Throw, Ok(<<>>)} \cup {Ok(t) : t \in DraftTexts} ELSE {Throw},
     ents1 : {Throw, Ok(Ents(2)), Ok(<<Entity(None)>>)},
     terms1 : {Throw} \cup {Ok(t) : t \in KeyTermLists},
     summary : {Throw} \cup {Ok(x) : x \in Summaries},
     ents2 : {Throw} \cup {Ok(e) : e \in EntityLists},
     terms2 : {Ok(t) : t \in KeyTermLists}]

\* ContentGeneratorAgent.generate_content: the four phases inside one try;
\* an exception of any phase is re-raised as "Content generation failed: ..."
agent_generate_content(topic, difficulty, subject, content_type, learning_objectives, env) ==
    LET raise(n) == [ok |-> FALSE, error |-> "Content generation failed", val |-> <<>>,
                     calls |-> n]
        sources == retrieve_reliable_sources(env.academic, env.web)
        context == gather_enhanced_context(sources.val)
        content == generate_student_friendly_content(topic, difficulty, subject,
                       content_type, context.val, learning_objectives, env.llm)
        processed == advanced_nlp_processing(content.val, topic, env.ents1, env.terms1,
                                             env.summary)
        materials == create_study_materials(processed.val, topic, env.ents2, env.terms2)
    IN IF ~sources.ok THEN raise(0)
       ELSE IF ~context.ok THEN raise(0)
       ELSE IF ~content.ok THEN raise(content.calls)
       ELSE IF ~processed.ok THEN raise(content.calls)
       ELSE IF ~materials.ok THEN raise(content.calls)
       ELSE [ok |-> TRUE, error |-> "",
             val |-> [content |-> processed.val,
                      study_materials |-> materials.val,
                      key_concepts |-> materials.val.key_concepts,
                      learning_objectives |-> materials.val.learning_objectives,
                      difficulty_level |-> difficulty,
                      sources |-> sources.val],
             calls |-> content.calls]

----------------------------------------------------------------------------
(* api/main.py: FallbackContentSystem *)

Python == <<"p", "y", "t", "h", "o", "n">>

\* a Python dict with optional keys: every key of keys, absent ones as None
Dict(keys, present) == [k \in keys |-> IF k \in DOMAIN present THEN Some(present[k]) ELSE None]

MaterialKeys ==
    {"flashcards", "summary", "key_concepts", "learning_objectives", "study_notes",
     "diagram_suggestions"}

\* the fixed Python lesson, under the heading "# {topic}"
PythonLesson(topic) ==
    [content |-> [kind |-> "python_lesson", topic |-> topic],
     key_concepts |->
       <<Some("Variables and Data Types"), Some("Basic Syntax and Comments"),
         Some("Control Structures (if/else, loops)"), Some("Functions and Parameters"),
         Some("String Formatting"), Some("Lists and Collections")>>,
     learning_objectives |->
       <<Some("Understand Python syntax and structure"),
         Some("Create and use variables of different types"),
         Some("Write basic control structures and loops"),
         Some("Define and call functions"),
         Some("Apply Python concepts to solve problems")>>,
     study_materials |->
       Dict(MaterialKeys,
            [flashcards |-> <<"Variable", "Function", "Loop">>,
             summary |-> "Python basics"])]

\* the generic stub: "This is fallback content for {topic} in {subject}."
GenericStub(topic, subject) ==
    [content |-> [kind |-> "stub", topic |-> topic, subject |-> subject],
     key_concepts |-> <<Some("Basic concepts"), Some("Fundamental principles")>>,
     learning_objectives |->
       <<Some(<<"Understand", topic>>), Some("Apply basic knowledge")>>,
     study_materials |-> Dict(MaterialKeys, <<>>)]

\* the dispatch without topic.lower(): only a lower-case "python" matches
get_python_content_exact_case(topic, difficulty, subject, content_type) ==
    IF Contains(topic, Python) THEN PythonLesson(topic) ELSE GenericStub(topic, subject)

get_python_content(topic, difficulty, subject, content_type) ==
    IF Contains(Lower(topic), Python) THEN PythonLesson(topic) ELSE GenericStub(topic, subject)

FallbackQuestions(difficulty) ==
    <<[id |-> "1", question |-> "What is a variable in Python?",
       type |-> "Multiple Choice",
       options |-> Some(<<"A mathematical equation", "A container for storing data",
                          "A type of loop", "A function name">>),
       correctAnswer |-> "A container for storing data",
       explanation |-> "Variables in Python are containers that store data values.",
       difficulty |-> difficulty, bloomLevel |-> "Understand"],
      [id |-> "2", question |-> "Which symbol is used for comments in Python?",
       type |-> "Multiple Choice",
       options |-> Some(<<"//", "/*", "#", "--">>),
       correctAnswer |-> "#",
       explanation |-> "In Python, the hash symbol (#) is used to create single-line comments.",
       difficulty |-> difficulty, bloomLevel |-> "Remember"],
      [id |-> "3", question |-> "True or False: Python is a compiled programming language.",
       type |-> "True/False",
       options |-> None,
       correctAnswer |-> "False",
       explanation |-> "Python is an interpreted language, not compiled.",
       difficulty |-> difficulty, bloomLevel |-> "Understand"]>>

Min(a, b) == IF a < b THEN a ELSE b

get_python_questions(content, question_count, question_types, difficulty) ==
    LET questions == FallbackQuestions(difficulty)
    IN [questions |-> Take(questions, question_count),
        metadata |-> [total_count |-> Min(question_count, Len(questions)),
                      difficulty_distribution |-> <<difficulty, 1>>,
                      question_types |-> question_types,
                      bloom_levels |-> <<"Remember", "Understand">>]]

----------------------------------------------------------------------------
(* api/main.py: start-up *)

\* the constructors run in this order; one that raises ends the try block,
\* so the constructors after it are not called
Constructed(content_ok, question_ok, feedback_ok) ==
    [content |-> content_ok,
     question |-> content_ok /\ question_ok,
     feedback |-> content_ok /\ question_ok /\ feedback_ok]

\* start-up without the try: a raising constructor ends the import
InitAgentsNoTry(content_ok, question_ok, feedback_ok) ==
    IF content_ok /\ question_ok /\ feedback_ok
    THEN [serving |-> "serving",
          agents |-> [content |-> TRUE, question |-> TRUE, feedback |-> TRUE]]
    ELSE [serving |-> "crashed",
          agents |-> [content |-> FALSE, question |-> FALSE, feedback |-> FALSE]]

\* start-up whose except branch leaves the agents built so far in place
InitAgentsKeepBuilt(content_ok, question_ok, feedback_ok) ==
    [serving |-> "serving",
     agents |-> Constructed(content_ok, question_ok, feedback_ok)]

\* the three constructors run inside one try; when any of them raises, the
\* except branch sets all three globals to None and the import goes on
InitAgents(content_ok, question_ok, feedback_ok) ==
    IF content_ok /\ question_ok /\ feedback_ok
    THEN [serving |-> "serving",
          agents |-> [content |-> TRUE, question |-> TRUE, feedback |-> TRUE]]
    ELSE [serving |-> "serving",
          agents |-> [content |-> FALSE, question |-> FALSE, feedback |-> FALSE]]

Startup ==
    /\ started = "no"
    /\ \E key \in BOOLEAN, c \in BOOLEAN, q \in BOOLEAN, f \in BOOLEAN :
         LET r == InitAgents(c, q, f)
         IN /\ apiKey' = key
            /\ started' = r.serving
            /\ agents' = r.agents
            /\ constructed' = Constructed(c, q, f)
    /\ UNCHANGED <<llmCalls, apiOp, pipeline, dbVars, uiVars>>

\* GET /health
api_health ==
    /\ started = "serving"
    /\ apiOp = Idle
    /\ apiOp' = [op |-> "health", status |-> 200,
                 agents_loaded |-> (agents.content /\ agents.question /\ agents.feedback)]
    /\ UNCHANGED <<started, apiKey, agents, constructed, llmCalls, pipeline, dbVars, uiVars>>

----------------------------------------------------------------------------
(* api/main.py: POST /api/generate-content *)

Difficulties == {"Beginner", "Advanced"}
ContentTypes == {"Study Notes", "Tutorial"}

Topics ==
    {<<"P", "y", "t", "h", "o", "n", " ", "v", "s", " ", "C">>,
     <<"M", "i", "t", "o", "s", "i", "s">>,
     <<"m", "y", "P", "Y", "t", "h", "O", "N">>,
     <<"p", "y", " ", "t", "h", "o", "n">>}

ContentRequests ==
    [topic : Topics, subject : {"Biology"}, difficulty : Difficulties,
     contentType : ContentTypes, learningObjectives : {None}]

RECURSIVE ConceptsOf(_)
ConceptsOf(lines) ==
    IF lines = <<>> THEN <<>>
    ELSE LET line == Head(lines)
             found == IF line.level >= 2 /\ line.len > 3
                      THEN (IF line.len > line.level /\ line.len - line.level - 1 < 100
                            THEN <<Some(line.text)>> ELSE <<>>)
                      ELSE line.bold
         IN found \o ConceptsOf(Tail(lines))

extract_key_concepts_from_content(content) ==
    LET concepts == ConceptsOf(Lines(content))
    IN IF concepts # <<>> THEN Take(concepts, 10)
       ELSE <<Some("Core Principles"), Some("Key Components"),
              Some("Fundamental Concepts"), Some("Main Applications"),
              Some("Important Methods")>>

IsObjectiveLine(line) == line.objective /\ line.len > 20 /\ line.len < 200

extract_learning_objectives_from_content(content, topic) ==
    LET found == SelectSeq(Lines(content), IsObjectiveLine)
        objectives == [i \in 1..Len(found) |-> Some(found[i].text)]
    IN IF objectives # <<>> THEN Take(objectives, 5)
       ELSE <<Some(<<"Understand the core concepts of", topic>>),
              Some(<<"Identify key components and principles of", topic>>),
              Some(<<"Apply knowledge to practical scenarios", topic>>),
              Some(<<"Analyze real-world applications of", topic>>),
              Some(<<"Evaluate different approaches within", topic>>)>>

\* pydantic validation of List[str]
AllStr(items) == \A i \in 1..Len(items) : items[i] # None

\* the statements between the agent call and the return of the inner try:
\* field extraction, the two extractors, ContentResponse(...)
ShapeAgentContent(response, topic) ==
    LET content == response.content
        key_concepts == IF response.key_concepts = <<>>
                        THEN extract_key_concepts_from_content(content)
                        ELSE response.key_concepts
        learning_objectives ==
            IF response.learning_objectives = <<>>
            THEN extract_learning_objectives_from_content(content, topic)
            ELSE response.learning_objectives
    IN IF AllStr(key_concepts) /\ AllStr(learning_objectives)
       THEN Ok([content |-> content,
                keyConcepts |-> key_concepts,
                learningObjectives |-> learning_objectives,
                studyMaterials |-> Dict(MaterialKeys, response.study_materials)])
       ELSE Throw

\* the fallback branch: FallbackContentSystem.get_python_content, ContentResponse(...)
ShapeFallbackContent(request) ==
    LET fallback_response == get_python_content(request.topic, request.difficulty,
                                                request.subject, request.contentType)
    IN Ok([content |-> fallback_response.content,
           keyConcepts |-> fallback_response.key_concepts,
           learningObjectives |-> fallback_response.learning_objectives,
           studyMaterials |-> fallback_response.study_materials])

\* the handler without its inner try: an agent failure reaches the outer except
GenerateContentHandlerNoInnerTry(request, content_agent, env) ==
    LET agent == IF content_agent
                 THEN agent_generate_content(request.topic, request.difficulty,
                          request.subject, request.contentType,
                          request.learningObjectives, env)
                 ELSE [ok |-> FALSE, error |-> "", val |-> <<>>, calls |-> 0]
        shaped == IF agent.ok THEN ShapeAgentContent(agent.val, request.topic) ELSE Throw
        fallback == ShapeFallbackContent(request)
    IN IF content_agent /\ agent.ok /\ shaped.ok
       THEN [status |-> 200, path |-> "agent", body |-> shaped.val,
             agent |-> agent, shaped |-> TRUE]
       ELSE IF content_agent
       THEN [status |-> 500, path |-> "error", body |-> <<>>,
             agent |-> agent, shaped |-> FALSE]
       ELSE [status |-> 200, path |-> "fallback", body |-> fallback.val,
             agent |-> agent, shaped |-> FALSE]

\* the handler: inner try around the agent path, outer try around everything
GenerateContentHandler(request, content_agent, env) ==
    LET agent == IF content_agent
                 THEN agent_generate_content(request.topic, request.difficulty,
                          request.subject, request.contentType,
                          request.learningObjectives, env)
                 ELSE [ok |-> FALSE, error |-> "", val |-> <<>>, calls |-> 0]
        shaped == IF agent.ok THEN ShapeAgentContent(agent.val, request.topic) ELSE Throw
        fallback == ShapeFallbackContent(request)
    IN IF content_agent /\ agent.ok /\ shaped.ok
       THEN [status |-> 200, path |-> "agent", body |-> shaped.val,
             agent |-> agent, shaped |-> TRUE]
       ELSE IF fallback.ok
       THEN [status |-> 200, path |-> "fallback", body |-> fallback.val,
             agent |-> agent, shaped |-> FALSE]
       ELSE [status |-> 500, path |-> "error", body |-> <<>>,
             agent |-> agent, shaped |-> FALSE]

api_generate_content ==
    /\ started = "serving"
    /\ apiOp = Idle
    /\ llmCalls < MaxLlmCalls
    /\ \E request \in ContentRequests, env \in ContentEnvs(apiKey) :
         \E r \in {GenerateContentHandler(request, agents.content, env)} :
            /\ llmCalls' = llmCalls + r.agent.calls
            /\ apiOp' = [op |-> "generate_content", request |-> request,
                         agent_present |-> agents.content,
                         search_raised |-> (~env.academic.ok \/ ~env.web.ok),
                         llm_raised |-> ~env.llm.ok,
                         nlp_raised |-> (~env.ents1.ok \/ ~env.terms1.ok \/ ~env.summary.ok),
                         materials_raised |-> (~env.ents2.ok \/ ~env.terms2.ok),
                         agent |-> r.agent, shaped |-> r.shaped,
                         path |-> r.path, status |-> r.status, body |-> r.body]
    /\ UNCHANGED <<started, apiKey, agents, constructed, pipeline, dbVars, uiVars>>

----------------------------------------------------------------------------
(* api/main.py: POST /api/generate-questions *)

QuestionRequests ==
    [content : {"c"}, questionCount : (-1)..MaxQuestionCount,
     questionTypes : {<<"Multiple Choice">>}, difficulty : {"Hard"}, subject : {"Biology"}]

\* a question as QuestionSetterAgent returns it
AgentQuestion(i) ==
    [question |-> ToString(i), type |-> "Short Answer", options |-> <<>>,
     correct_answer |-> ToString(i), explanation |-> "", difficulty |-> "Medium",
     bloom_level |-> "Apply"]

\* what QuestionSetterAgent.generate_questions does: without an API key its
\* LLM call fails and it raises; with one it raises or returns questions
QuestionAgentOutcomes(key) ==
    IF key
    THEN {Throw} \cup {Ok([questions |-> [i \in 1..n |-> AgentQuestion(i)],
                           metadata |-> [total_count |-> n]]) : n \in 0..MaxQuestions}
    ELSE {Throw}

\* formatting that numbers the questions from 0, as enumerate() does
FormatAgentQuestionsZeroBased(questions) ==
    [i \in 1..Len(questions) |->
       [id |-> ToString(i - 1),
        question |-> questions[i].question,
        type |-> questions[i].type,
        options |-> questions[i].options,
        correctAnswer |-> questions[i].correct_answer,
        explanation |-> questions[i].explanation,
        difficulty |-> questions[i].difficulty,
        bloomLevel |-> questions[i].bloom_level]]

\* "id": str(i + 1) for i, question in enumerate(questions)
FormatAgentQuestions(questions) ==
    [i \in 1..Len(questions) |->
       [id |-> ToString(i),
        question |-> questions[i].question,
        type |-> questions[i].type,
        options |-> questions[i].options,
        correctAnswer |-> questions[i].correct_answer,
        explanation |-> questions[i].explanation,
        difficulty |-> questions[i].difficulty,
        bloomLevel |-> questions[i].bloom_level]]

FormatFallbackQuestions(questions) ==
    [i \in 1..Len(questions) |->
       [id |-> questions[i].id,
        question |-> questions[i].question,
        type |-> questions[i].type,
        options |-> GetOr(questions[i].options),
        correctAnswer |-> questions[i].correctAnswer,
        explanation |-> questions[i].explanation,
        difficulty |-> questions[i].difficulty,
        bloomLevel |-> questions[i].bloomLevel]]

GenerateQuestionsHandler(request, question_agent, outcome) ==
    LET fallback_response ==
            get_python_questions(request.content, request.questionCount,
                                 request.questionTypes, request.difficulty)
    IN IF question_agent /\ outcome.ok
       THEN [status |-> 200, path |-> "agent",
             questions |-> FormatAgentQuestions(outcome.val.questions),
             metadata |-> [subject |-> request.subject, difficulty |-> request.difficulty,
                           total_count |-> outcome.val.metadata.total_count]]
       ELSE [status |-> 200, path |-> "fallback",
             questions |-> FormatFallbackQuestions(fallback_response.questions),
             metadata |-> fallback_response.metadata]

api_generate_questions ==
    /\ started = "serving"
    /\ apiOp = Idle
    /\ \E request \in QuestionRequests, outcome \in QuestionAgentOutcomes(apiKey) :
         \E r \in {GenerateQuestionsHandler(request, agents.question, outcome)} :
            apiOp' = [op |-> "generate_questions", request |-> request,
                      agent_present |-> agents.question,
                      agent_raised |-> ~outcome.ok,
                      path |-> r.path, status |-> r.status,
                      questions |-> r.questions, metadata |-> r.metadata]
    /\ UNCHANGED <<started, apiKey, agents, constructed, llmCalls, pipeline, dbVars, uiVars>>

----------------------------------------------------------------------------
(* api/main.py: POST /api/evaluate-quiz *)

\* submitted questions and answers are dicts; the keys the fallback
\* evaluator reads may be missing (None)
QuizQuestions == {[correctAnswer |-> Some(<<" ", "O", "k">>)],
                  [correctAnswer |-> Some(<<"o", " ", "k">>)],
                  [correctAnswer |-> None]}

QuizAnswers == {[answer |-> Some(<<"o", "K", " ">>)],
                [answer |-> Some(<<"o", "k", "s">>)],
                [answer |-> None]}

RECURSIVE SeqsUpTo(_, _)
SeqsUpTo(S, n) ==
    IF n = 0 THEN {<<>>}
    ELSE LET shorter == SeqsUpTo(S, n - 1)
         IN shorter \cup {Append(q, x) : q \in {p \in shorter : Len(p) = n - 1}, x \in S}

QuizSubmissions ==
    [questions : SeqsUpTo(QuizQuestions, MaxQuestions),
     answers : SeqsUpTo(QuizAnswers, MaxQuestions),
     topic : {"Biology"}]

\* what FeedbackEvaluatorAgent.evaluate_answers does
FeedbackAgentOutcomes(key) ==
    IF key
    THEN {Throw, Ok([overall_score |-> 80, detailed_feedback |-> "fb",
                     study_suggestions |-> <<"s1", "s2">>])}
    ELSE {Throw}

\* a comparison that ignores case but keeps the surrounding whitespace
AnswerMatchesUntrimmed(user_answer, correct_answer) ==
    Lower(user_answer) = Lower(correct_answer)

AnswerMatches(user_answer, correct_answer) ==
    Strip(Lower(user_answer)) = Strip(Lower(correct_answer))

\* the for loop of the fallback branch over questions 1..n; answers[i]
\* raises IndexError when the answers run out
RECURSIVE CountCorrect(_, _, _)
CountCorrect(questions, answers, n) ==
    IF n = 0 THEN Ok(0)
    ELSE LET before == CountCorrect(questions, answers, n - 1)
         IN IF ~before.ok \/ n > Len(answers) THEN Throw
            ELSE Ok(before.val
                    + (IF AnswerMatches(GetOr(answers[n].answer),
                                        GetOr(questions[n].correctAnswer))
                       THEN 1 ELSE 0))

\* int((correct_count / total_questions) * 100) if total_questions > 0 else 0.
\* The quotient and the product are doubles; for every total up to 40 the
\* double product truncates to the exact integer quotient written here.
FallbackScore(correct_count, total_questions) ==
    IF total_questions > 0 THEN (correct_count * 100) \div total_questions ELSE 0

FallbackFeedback(score) ==
    IF score >= 80 THEN "Excellent work!"
    ELSE IF score >= 60 THEN "Good job!"
    ELSE "Keep studying!"

EvaluateQuizHandler(submission, feedback_agent, outcome) ==
    LET total_questions == Len(submission.questions)
        counted == CountCorrect(submission.questions, submission.answers, total_questions)
        score == FallbackScore(counted.val, total_questions)
    IN IF feedback_agent /\ outcome.ok
       THEN [status |-> 200, path |-> "agent", score |-> outcome.val.overall_score,
             feedback |-> outcome.val.detailed_feedback,
             recommendations |-> outcome.val.study_suggestions,
             correct_count |-> 0, total_questions |-> total_questions]
       ELSE IF counted.ok
       THEN [status |-> 200, path |-> "fallback", score |-> score,
             feedback |-> FallbackFeedback(score),
             recommendations |-> <<"Review the questions you missed",
                                   "Practice with similar problems",
                                   "Focus on understanding the underlying concepts">>,
             correct_count |-> counted.val, total_questions |-> total_questions]
       ELSE [status |-> 500, path |-> "error", score |-> 0,
             feedback |-> "Failed to evaluate quiz", recommendations |-> <<>>,
             correct_count |-> 0, total_questions |-> total_questions]

api_evaluate_quiz ==
    /\ started = "serving"
    /\ apiOp = Idle
    /\ \E submission \in QuizSubmissions, outcome \in FeedbackAgentOutcomes(apiKey) :
         \E r \in {EvaluateQuizHandler(submission, agents.feedback, outcome)} :
            apiOp' = [op |-> "evaluate_quiz", submission |-> submission,
                      agent_present |-> agents.feedback,
                      agent_raised |-> ~outcome.ok,
                      path |-> r.path, status |-> r.status, score |-> r.score,
                      feedback |-> r.feedback, recommendations |-> r.recommendations,
                      correct_count |-> r.correct_count,
                      total_questions |-> r.total_questions]
    /\ UNCHANGED <<started, apiKey, agents, constructed, llmCalls, pipeline, dbVars, uiVars>>

----------------------------------------------------------------------------
(* agents/content_generator.py: generate_content calls that overlap *)

\* The one ContentGeneratorAgent of the process serves every caller.  A call
\* reads self.model, self.nlp_processor and self.ir_system and keeps what
\* the phases produce in local variables; callers interleave between phases.

NoFrame == [pc |-> "idle"]

\* the arguments and the collaborator responses of the overlapping calls
PipelineRequests ==
    {rq \in ContentRequests :
        /\ rq.difficulty = "Beginner"
        /\ rq.contentType = "Study Notes"
        /\ Len(rq.topic) = 7}

PipelineEnvs(key) ==
    [academic : {Ok(r) : r \in SearchResults \ {<<>>}},
     web : {Throw, Ok(<<>>)},
     llm : IF key THEN {Ok(t) : t \in DraftTexts} ELSE {Throw},
     ents1 : {Throw, Ok(Ents(2))},
     terms1 : {Ok(t) : t \in KeyTermLists},
     summary : {Ok(x) : x \in Summaries},
     ents2 : {Ok(Ents(MaxEntities))},
     terms2 : {Ok(t) : t \in KeyTermLists}]

\* a phase result kept on the agent object, where every caller sees it
StoreOnAgent(frames, r, name, v) ==
    [i \in DOMAIN frames |->
       IF frames[i].pc = "idle" THEN frames[i] ELSE [frames[i] EXCEPT ![name] = v]]

\* a phase result assigned to a local variable of caller r's frame
Store(frames, r, name, v) == [frames EXCEPT ![r][name] = v]

\* except Exception as e: raise Exception(f"Content generation failed: {str(e)}")
Raise(frames, r, calls) ==
    [frames EXCEPT ![r].pc = "done",
                   ![r].result = [ok |-> FALSE, error |-> "Content generation failed",
                                  val |-> <<>>, calls |-> calls]]

BeginGenerate ==
    /\ started = "serving"
    /\ agents.content
    /\ \E r \in 1..MaxRequests, rq \in PipelineRequests, env \in PipelineEnvs(apiKey) :
         /\ pipeline[r].pc = "idle"
         /\ pipeline' = [pipeline EXCEPT
                           ![r] = [pc |-> "sources", request |-> rq, env |-> env,
                                   sources |-> Throw, context |-> Throw, content |-> Throw,
                                   processed |-> Throw, result |-> Throw]]
    /\ UNCHANGED <<started, apiKey, agents, constructed, llmCalls, apiOp, dbVars, uiVars>>

\* sources = self._retrieve_reliable_sources(topic, subject)
RetrieveSources ==
    /\ \E r \in 1..MaxRequests :
         /\ pipeline[r].pc = "sources"
         /\ \E v \in {retrieve_reliable_sources(pipeline[r].env.academic,
                                                pipeline[r].env.web)} :
              pipeline' = IF v.ok
                          THEN [Store(pipeline, r, "sources", v) EXCEPT ![r].pc = "context"]
                          ELSE Raise(pipeline, r, 0)
    /\ UNCHANGED <<started, apiKey, agents, constructed, llmCalls, apiOp, dbVars, uiVars>>

\* context = self._gather_enhanced_context(topic, subject, sources)
GatherContext ==
    /\ \E r \in 1..MaxRequests :
         /\ pipeline[r].pc = "context"
         /\ \E v \in {gather_enhanced_context(pipeline[r].sources.val)} :
              pipeline' = IF v.ok
                          THEN [Store(pipeline, r, "context", v) EXCEPT ![r].pc = "content"]
                          ELSE Raise(pipeline, r, 0)
    /\ UNCHANGED <<started, apiKey, agents, constructed, llmCalls, apiOp, dbVars, uiVars>>

\* content = self._generate_student_friendly_content(...): the LLM call
DraftContent ==
    /\ llmCalls < MaxLlmCalls
    /\ \E r \in 1..MaxRequests :
         /\ pipeline[r].pc = "content"
         /\ LET rq == pipeline[r].request
            IN \E v \in {generate_student_friendly_content(
                             rq.topic, rq.difficulty, rq.subject, rq.contentType,
                             pipeline[r].context.val, rq.learningObjectives,
                             pipeline[r].env.llm)} :
                  /\ llmCalls' = llmCalls + v.calls
                  /\ pipeline' = IF v.ok
                                 THEN [Store(pipeline, r, "content", v)
                                         EXCEPT ![r].pc = "processed"]
                                 ELSE Raise(pipeline, r, v.calls)
    /\ UNCHANGED <<started, apiKey, agents, constructed, apiOp, dbVars, uiVars>>

\* processed_content = self._advanced_nlp_processing(content, topic)
ProcessContent ==
    /\ \E r \in 1..MaxRequests :
         /\ pipeline[r].pc = "processed"
         /\ \E v \in {advanced_nlp_processing(pipeline[r].content.val,
                                              pipeline[r].request.topic,
                                              pipeline[r].env.ents1, pipeline[r].env.terms1,
                                              pipeline[r].env.summary)} :
              pipeline' = IF v.ok
                          THEN [Store(pipeline, r, "processed", v)
                                  EXCEPT ![r].pc = "materials"]
                          ELSE Raise(pipeline, r, pipeline[r].content.calls)
    /\ UNCHANGED <<started, apiKey, agents, constructed, llmCalls, apiOp, dbVars, uiVars>>

\* study_materials = self._create_study_materials(processed_content, topic)
\* and the return statement
CreateMaterials ==
    /\ \E r \in 1..MaxRequests :
         /\ pipeline[r].pc = "materials"
         /\ \E v \in {create_study_materials(pipeline[r].processed.val,
                                             pipeline[r].request.topic,
                                             pipeline[r].env.ents2, pipeline[r].env.terms2)} :
              pipeline' =
                 IF v.ok
                 THEN [pipeline EXCEPT
                         ![r].pc = "done",
                         ![r].result =
                            [ok |-> TRUE, error |-> "",
                             val |-> [content |-> pipeline[r].processed.val,
                                      study_materials |-> v.val,
                                      key_concepts |-> v.val.key_concepts,
                                      learning_objectives |-> v.val.learning_objectives,
                                      difficulty_level |-> pipeline[r].request.difficulty,
                                      sources |-> pipeline[r].sources.val],
                             calls |-> pipeline[r].content.calls]]
                 ELSE Raise(pipeline, r, pipeline[r].content.calls)
    /\ UNCHANGED <<started, apiKey, agents, constructed, llmCalls, apiOp, dbVars, uiVars>>

\* the call has returned or raised and its frame is gone
EndGenerate ==
    /\ \E r \in 1..MaxRequests :
         /\ pipeline[r].pc = "done"
         /\ pipeline' = [pipeline EXCEPT ![r] = NoFrame]
    /\ UNCHANGED <<started, apiKey, agents, constructed, llmCalls, apiOp, dbVars, uiVars>>

----------------------------------------------------------------------------
(* agents/content_generator.py: single methods of the agent on their inputs *)

\* the quality indicators as the characters the scan looks for
IndicatorChars ==
    [k \in TrustKeywords |->
       CASE k = "academic" -> <<"a", "c", "a", "d", "e", "m", "i", "c">>
         [] k = "peer-reviewed" ->
              <<"p", "e", "e", "r", "-", "r", "e", "v", "i", "e", "w", "e", "d">>
         [] k = "textbook" -> <<"t", "e", "x", "t", "b", "o", "o", "k">>
         [] k = "educational" ->
              <<"e", "d", "u", "c", "a", "t", "i", "o", "n", "a", "l">>
         [] k = "university" -> <<"u", "n", "i", "v", "e", "r", "s", "i", "t", "y">>]

\* content = (title + ' ' + content).lower(); indicator in content
IndicatorsIn(title, content) ==
    {k \in TrustKeywords : Contains(Lower(title \o <<" ">> \o content), IndicatorChars[k])}

ScannedSnippet(title, content) == Snippet(title, content, IndicatorsIn(title, content))

\* snippets the search collaborator returns
ScannedSnippets ==
    {ScannedSnippet(<<"A", "c", "a", "d", "e", "m", "i", "c">>,
                    <<"T", "e", "x", "t", "B", "o", "o", "k">>),
     ScannedSnippet(<<"a", "c", "a">>, <<"d", "e", "m", "i", "c">>),
     ScannedSnippet(<<"U", "N", "I", "V", "E", "R", "S", "I", "T", "Y">>, <<"x">>)}

\* one _retrieve_reliable_sources call of the content agent
call_retrieve_reliable_sources ==
    /\ started = "serving"
    /\ agents.content
    /\ apiOp = Idle
    /\ \E academic \in {Throw} \cup {Ok(q) : q \in SeqsUpTo(ScannedSnippets, MaxSnippets)},
          web \in {Throw} \cup {Ok(q) : q \in SeqsUpTo(ScannedSnippets, 1)} :
         apiOp' = [op |-> "retrieve_reliable_sources",
                   academic |-> academic, web |-> web,
                   ret |-> retrieve_reliable_sources(academic, web)]
    /\ UNCHANGED <<started, apiKey, agents, constructed, llmCalls, pipeline, dbVars, uiVars>>

\* topics of the content requests whose diagrams are suggested
DiagramTopics ==
    {<<"M", "i", "t", "o", "s", "i", "s", " ", "p", "r", "o", "c", "e", "s", "s">>,
     <<"M", "i", "t", "o", "s", "i", "s">>,
     <<"A", "N", "A", "T", "O", "M", "Y">>,
     <<"A", " ", "v", "s", " ", "B">>,
     <<"C", "y", "c", "l", "e", " ", "p", "a", "r", "t", "s">>,
     <<"S", "t", "e", "p", "s", " ", "v", "s", " ", "P", "a", "r", "t", "s">>}

\* one _suggest_diagrams call of the content agent
call_suggest_diagrams ==
    /\ started = "serving"
    /\ agents.content
    /\ apiOp = Idle
    /\ \E topic \in DiagramTopics, n \in 0..MaxEntities :
         apiOp' = [op |-> "suggest_diagrams", topic |-> topic, entities |-> Ents(n),
                   ret |-> suggest_diagrams(topic, Ents(n))]
    /\ UNCHANGED <<started, apiKey, agents, constructed, llmCalls, pipeline, dbVars, uiVars>>

\* lines a content text may hold among its sentences: at the two length
\* limits and next to them, without a period, a heading, an empty line
OddLines ==
    {Line("twenty", 20, TRUE, 0), Line("twenty-one", 21, TRUE, 0),
     Line("one-ninety-nine", 199, TRUE, 0), Line("two-hundred", 200, TRUE, 0),
     Line("no period", 40, FALSE, 0), Line("## A heading. With a period.", 28, TRUE, 2),
     Blank}

\* a text of n lines: sentences numbered by their position, one odd line at k
NumberedText(n, k, odd) ==
    [kind |-> "draft",
     lines |-> [j \in 1..n |-> IF j = k THEN odd ELSE Line(ToString(j), 40, TRUE, 0)]]

\* one _create_bullet_notes call of the content agent
call_create_bullet_notes ==
    /\ started = "serving"
    /\ agents.content
    /\ apiOp = Idle
    /\ \E n \in 0..MaxLines, k \in 1..MaxLines, odd \in OddLines :
         apiOp' = [op |-> "create_bullet_notes", content |-> NumberedText(n, k, odd),
                   ret |-> create_bullet_notes(NumberedText(n, k, odd))]
    /\ UNCHANGED <<started, apiKey, agents, constructed, llmCalls, pipeline, dbVars, uiVars>>

----------------------------------------------------------------------------
(* app.py: the quiz in the dashboard *)

\* One script run renders every tab: question_setter_interface, then
\* feedback_evaluator_interface.  uiPc = "waiting": no run in progress;
\* uiPc = "feedback": the question tab is done, the feedback tab is next.

\* a question is kept by what display_quiz_interface does with it: it shows
\* an answer widget, or (a Multiple Choice without options) stores '' itself
QuestionKinds == {"Short Answer", "No Options"}

Quizzes == SeqsUpTo(QuestionKinds, MaxQuizLen)

SliderValues == {0, 30, 50, 60, 100}

\* st.session_state.get('show_quiz') and st.session_state.get('quiz_questions')
QuizShown(ss) ==
    /\ ss.show_quiz
    /\ ss.quiz_questions # None
    /\ ss.quiz_questions[1] # <<>>

\* the loop of display_quiz_interface: a question without options gets ''
RenderQuiz(ss) ==
    LET questions == ss.quiz_questions[1]
        blank == {i \in 1..Len(questions) : questions[i] = "No Options"}
    IN [ss EXCEPT !.quiz_answers =
          [i \in (DOMAIN ss.quiz_answers) \cup blank |->
             IF i \in blank THEN "" ELSE ss.quiz_answers[i]]]

\* the sliders of the question settings
difficulty_distribution(easy_pct, medium_pct) ==
    LET hard_pct == 100 - easy_pct - medium_pct
    IN [Easy |-> Ratio(easy_pct, 100), Medium |-> Ratio(medium_pct, 100),
        Hard |-> Ratio(hard_pct, 100)]

\* a run in which no button is pressed and no answer changes
rerun_script ==
    /\ uiPc = "waiting"
    /\ session_state' = IF QuizShown(session_state) THEN RenderQuiz(session_state)
                        ELSE session_state
    /\ uiPc' = "feedback"
    /\ UNCHANGED <<quizLog, dbVars, apiVars>>

\* "Generate Questions": question_agent.generate_questions returns a list or raises
generate_questions_click ==
    /\ uiPc = "waiting"
    /\ ~QuizShown(session_state)
    /\ quizLog.generated < MaxQuizzes
    /\ \E easy_pct \in SliderValues, medium_pct \in SliderValues,
          outcome \in {Throw} \cup {Ok(q) : q \in Quizzes} :
         /\ session_state' =
              IF outcome.ok
              THEN RenderQuiz([session_state EXCEPT !.quiz_questions = Some(outcome.val),
                                                    !.show_quiz = TRUE])
              ELSE session_state
         /\ quizLog' = [quizLog EXCEPT
                          !.generated = @ + 1,
                          !.distribution =
                             Some(difficulty_distribution(easy_pct, medium_pct))]
    /\ uiPc' = "feedback"
    /\ UNCHANGED <<dbVars, apiVars>>

\* the user fills the widget of question i
answer_question ==
    /\ uiPc = "waiting"
    /\ QuizShown(session_state)
    /\ \E i \in 1..Len(session_state.quiz_questions[1]) :
         /\ session_state.quiz_questions[1][i] = "Short Answer"
         /\ session_state' =
              RenderQuiz([session_state EXCEPT
                            !.quiz_answers =
                               [k \in (DOMAIN @) \cup {i} |-> IF k = i THEN "a" ELSE @[k]]])
    /\ uiPc' = "feedback"
    /\ UNCHANGED <<quizLog, dbVars, apiVars>>

\* "Submit Quiz & Get Feedback" without the test on the number of answers
submit_quiz_unchecked ==
    /\ uiPc = "waiting"
    /\ QuizShown(session_state)
    /\ session_state' = [RenderQuiz(session_state) EXCEPT !.quiz_completed = TRUE]
    /\ quizLog' = IF ~session_state.quiz_completed
                  THEN [quizLog EXCEPT !.submitted = @ + 1] ELSE quizLog
    /\ uiPc' = "feedback"
    /\ UNCHANGED <<dbVars, apiVars>>

\* "Submit Quiz & Get Feedback"; st.rerun() starts the run that follows
submit_quiz ==
    /\ uiPc = "waiting"
    /\ QuizShown(session_state)
    /\ LET ss == RenderQuiz(session_state)
           complete == Cardinality(DOMAIN ss.quiz_answers) = Len(ss.quiz_questions[1])
       IN /\ session_state' = IF complete THEN [ss EXCEPT !.quiz_completed = TRUE] ELSE ss
          /\ quizLog' = IF complete /\ ~ss.quiz_completed
                        THEN [quizLog EXCEPT !.submitted = @ + 1] ELSE quizLog
    /\ uiPc' = "feedback"
    /\ UNCHANGED <<dbVars, apiVars>>

\* "Generate New Questions" next to a shown quiz; st.rerun()
reset_quiz ==
    /\ uiPc = "waiting"
    /\ QuizShown(session_state)
    /\ session_state' = [show_quiz |-> FALSE, quiz_questions |-> None,
                         quiz_answers |-> <<>>, quiz_completed |-> FALSE]
    /\ uiPc' = "feedback"
    /\ UNCHANGED <<quizLog, dbVars, apiVars>>

\* the feedback tab of the run: feedback_agent.evaluate_answers returns or raises
feedback_evaluator_interface ==
    /\ uiPc = "feedback"
    /\ \E outcome \in {Throw, Ok("feedback")} :
         IF /\ session_state.quiz_completed
            /\ session_state.quiz_questions # None
            /\ session_state.quiz_questions[1] # <<>>
         THEN IF outcome.ok
              THEN /\ session_state' = [session_state EXCEPT !.quiz_completed = FALSE,
                                                             !.quiz_questions = None,
                                                             !.quiz_answers = <<>>]
                   /\ quizLog' = [quizLog EXCEPT !.evaluated = @ + 1]
              ELSE UNCHANGED <<session_state, quizLog>>
         ELSE UNCHANGED <<session_state, quizLog>>
    /\ uiPc' = "waiting"
    /\ UNCHANGED <<dbVars, apiVars>>

----------------------------------------------------------------------------

Init ==
    /\ sessions = <<>>
    /\ nextId = 1
    /\ progress = <<>>
    /\ now = 0
    /\ dbOp = Idle
    /\ content_collection = <<>>
    /\ questions_collection = <<>>
    /\ statCalls = <<>>
    /\ users_collection = <<>>
    /\ driverUp = TRUE
    /\ statsInFlight = [c \in 1..MaxCallers |-> NotCalling]
    /\ started = "no"
    /\ apiKey = FALSE
    /\ agents = [content |-> FALSE, question |-> FALSE, feedback |-> FALSE]
    /\ constructed = [content |-> FALSE, question |-> FALSE, feedback |-> FALSE]
    /\ llmCalls = 0
    /\ apiOp = Idle
    /\ pipeline = [r \in 1..MaxRequests |-> NoFrame]
    /\ session_state = [show_quiz |-> FALSE, quiz_questions |-> None,
                        quiz_answers |-> <<>>, quiz_completed |-> FALSE]
    /\ uiPc = "waiting"
    /\ quizLog = [generated |-> 0, submitted |-> 0, evaluated |-> 0, distribution |-> None]

NextDB ==
    \/ start_study_session
    \/ end_study_session
    \/ cleanup_old_sessions
    \/ get_user_sessions
    \/ Tick
    \/ Return

SpecDB == Init /\ [][NextDB]_vars

NextProgress ==
    \/ save_user_progress
    \/ get_user_progress
    \/ get_user_performance_summary
    \/ cleanup_old_sessions
    \/ Tick
    \/ Return

SpecProgress == Init /\ [][NextProgress]_vars

NextContent ==
    \/ add_content
    \/ get_content_by_subject
    \/ update_content_views
    \/ Return

SpecContent == Init /\ [][NextContent]_vars

NextQuestions ==
    \/ add_question
    \/ get_questions_by_topic
    \/ update_question_stats
    \/ Return

SpecQuestions == Init /\ [][NextQuestions]_vars

NextStatsRace ==
    \/ add_question
    \/ StatsIncrement
    \/ StatsFind
    \/ StatsSetRate
    \/ Return

SpecStatsRace == Init /\ [][NextStatsRace]_vars

NextUsers ==
    \/ create_user
    \/ get_user
    \/ update_user_preferences
    \/ Tick
    \/ Return

SpecUsers == Init /\ [][NextUsers]_vars

\* the service constructed while the server is unreachable: MongoClient
\* connects lazily, so construction succeeds and every driver call raises
InitOutage ==
    /\ sessions = <<>>
    /\ nextId = 1
    /\ progress = <<>>
    /\ now = 0
    /\ dbOp = Idle
    /\ content_collection = <<>>
    /\ questions_collection = <<>>
    /\ statCalls = <<>>
    /\ users_collection = <<>>
    /\ driverUp = FALSE
    /\ statsInFlight = [c \in 1..MaxCallers |-> NotCalling]
    /\ started = "no"
    /\ apiKey = FALSE
    /\ agents = [content |-> FALSE, question |-> FALSE, feedback |-> FALSE]
    /\ constructed = [content |-> FALSE, question |-> FALSE, feedback |-> FALSE]
    /\ llmCalls = 0
    /\ apiOp = Idle
    /\ pipeline = [r \in 1..MaxRequests |-> NoFrame]
    /\ session_state = [show_quiz |-> FALSE, quiz_questions |-> None,
                        quiz_answers |-> <<>>, quiz_completed |-> FALSE]
    /\ uiPc = "waiting"
    /\ quizLog = [generated |-> 0, submitted |-> 0, evaluated |-> 0, distribution |-> None]

NextService ==
    \/ add_content
    \/ get_content_by_subject
    \/ update_content_views
    \/ save_user_progress
    \/ get_user_progress
    \/ get_user_performance_summary
    \/ add_question
    \/ get_questions_by_topic
    \/ update_question_stats
    \/ create_user
    \/ get_user
    \/ update_user_preferences
    \/ start_study_session
    \/ end_study_session
    \/ get_user_sessions
    \/ cleanup_old_sessions
    \/ Tick
    \/ Return

SpecOutage == InitOutage /\ [][NextService]_vars

\* the response is sent and the handler is ready for the next request
Respond ==
    /\ apiOp # Idle
    /\ apiOp' = Idle
    /\ UNCHANGED <<started, apiKey, agents, constructed, llmCalls, pipeline, dbVars, uiVars>>

NextApi ==
    \/ Startup
    \/ api_health
    \/ api_generate_content
    \/ api_generate_questions
    \/ api_evaluate_quiz
    \/ Respond

SpecApi == Init /\ [][NextApi]_vars

NextDashboard ==
    \/ rerun_script
    \/ generate_questions_click
    \/ answer_question
    \/ submit_quiz
    \/ reset_quiz
    \/ feedback_evaluator_interface

SpecDashboard == Init /\ [][NextDashboard]_vars

NextMethods ==
    \/ Startup
    \/ call_retrieve_reliable_sources
    \/ call_suggest_diagrams
    \/ call_create_bullet_notes
    \/ Respond

SpecMethods == Init /\ [][NextMethods]_vars

NextPipeline ==
    \/ Startup
    \/ BeginGenerate
    \/ RetrieveSources
    \/ GatherContext
    \/ DraftContent
    \/ ProcessContent
    \/ CreateMaterials
    \/ EndGenerate

SpecPipeline == Init /\ [][NextPipeline]_vars

----------------------------------------------------------------------------
(* Study sessions *)

SessionShapeOK(doc) ==
    \/ doc.status = "active" /\ doc.end_time = None
    \/ doc.status = "completed" /\ doc.end_time # None

StartedSessionIsActive ==
    (dbOp.op = "start_study_session" /\ dbOp.ret # None)
        => /\ dbOp.ret[1] \in DOMAIN sessions
           /\ sessions[dbOp.ret[1]].status = "active"
           /\ sessions[dbOp.ret[1]].end_time = None

EndedSessionIsCompleted ==
    (dbOp.op = "end_study_session" /\ ~dbOp.raised /\ dbOp.id \in DOMAIN sessions)
        => /\ sessions[dbOp.id].status = "completed"
           /\ sessions[dbOp.id].end_time # None
           /\ sessions[dbOp.id].duration = dbOp.duration
           /\ sessions[dbOp.id].score = dbOp.final_score

NeverReopened ==
    \A id \in DOMAIN sessions \cap DOMAIN sessions' :
        sessions[id].status = "completed" => sessions'[id].status = "completed"

\* C1: a session returned by start_study_session is active with a null
\* end_time; after end_study_session(id, final_score, duration) it is
\* completed, has an end_time, and its duration and score are the values
\* passed; every stored session is either active with null end_time or
\* completed with end_time set; and no step of the service turns a completed
\* session active again.
C1_SessionLifecycle ==
    /\ [](/\ \A id \in DOMAIN sessions : SessionShapeOK(sessions[id])
          /\ StartedSessionIsActive
          /\ EndedSessionIsCompleted)
    /\ [][NeverReopened]_vars

C1_Witness ==
    /\ dbOp.op = "end_study_session"
    /\ ~dbOp.raised
    /\ dbOp.id \in DOMAIN sessions
    /\ sessions[dbOp.id].status = "completed"
    /\ sessions[dbOp.id].score = dbOp.final_score

\* C2: once a session is completed, no later operation changes its
\* end_time, duration, score or status while it is stored.
C2_CompletedSessionFrozen ==
    [][\A id \in DOMAIN sessions \cap DOMAIN sessions' :
         sessions[id].status = "completed"
            => /\ sessions'[id].end_time = sessions[id].end_time
               /\ sessions'[id].duration = sessions[id].duration
               /\ sessions'[id].score = sessions[id].score
               /\ sessions'[id].status = sessions[id].status]_vars

----------------------------------------------------------------------------
(* POST /api/generate-content *)

\* the ContentResponse built from the Fallback Provider's output
FallbackBody(request) ==
    LET f == get_python_content(request.topic, request.difficulty, request.subject,
                                request.contentType)
    IN [content |-> f.content, keyConcepts |-> f.key_concepts,
        learningObjectives |-> f.learning_objectives,
        studyMaterials |-> f.study_materials]

\* C3: whenever the content agent is absent, or its generate_content call
\* raises, or shaping its result raises, the response is a 200 whose body is
\* exactly the Fallback Provider's output for the request; an answered
\* request is a 500 only when the fallback path itself raised.
C3_SilentFallback ==
    apiOp.op = "generate_content"
        => /\ (~apiOp.agent_present \/ ~apiOp.agent.ok \/ ~apiOp.shaped)
                => /\ apiOp.status = 200
                   /\ apiOp.body = FallbackBody(apiOp.request)
           /\ apiOp.status = 500 => ~ShapeFallbackContent(apiOp.request).ok

C3_Witness ==
    /\ apiOp.op = "generate_content"
    /\ apiOp.agent_present
    /\ apiOp.agent.ok
    /\ ~apiOp.shaped
    /\ apiOp.status = 200
    /\ apiOp.path = "fallback"

\* C4: one generate-content request makes at most one LLM call: exactly one
\* when the agent succeeds, exactly one when the LLM call fails (no retry,
\* and the API then answers from the static fallback), none when the agent
\* is absent; the process-wide call counter grows by that number.
C4_NoRetry ==
    apiOp.op = "generate_content"
        => /\ apiOp.agent.calls <= 1
           /\ apiOp.agent.calls <= llmCalls
           /\ (apiOp.agent_present /\ apiOp.agent.ok) => apiOp.agent.calls = 1
           /\ (apiOp.agent_present /\ apiOp.llm_raised)
                => (apiOp.agent.calls = 1 /\ apiOp.path = "fallback")
           /\ ~apiOp.agent_present => apiOp.agent.calls = 0

C4_Witness ==
    /\ apiOp.op = "generate_content"
    /\ apiOp.agent_present
    /\ apiOp.llm_raised
    /\ apiOp.agent.calls = 1
    /\ llmCalls = 1
    /\ apiOp.path = "fallback"

ResultKeys ==
    {"content", "study_materials", "key_concepts", "learning_objectives",
     "difficulty_level", "sources"}

\* C5: the agent's generate_content either returns a result with the six
\* keys or raises the generic "Content generation failed" error; it raises
\* exactly when the LLM drafting stage raises; a raising search, NLP
\* enrichment or study-material collaborator is replaced by that stage's
\* default (empty sources with quality 0.5, the unmodified draft, the empty
\* study materials).
C5_NoPartialSuccess ==
    (apiOp.op = "generate_content" /\ apiOp.agent_present)
        => /\ apiOp.agent.ok => DOMAIN apiOp.agent.val = ResultKeys
           /\ ~apiOp.agent.ok => apiOp.agent.error = "Content generation failed"
           /\ apiOp.agent.ok <=> ~apiOp.llm_raised
           /\ (apiOp.agent.ok /\ apiOp.search_raised)
                => apiOp.agent.val.sources =
                     [academic |-> <<>>, educational |-> <<>>,
                      quality_score |-> [num |-> 1, den |-> 2]]
           /\ (apiOp.agent.ok /\ apiOp.nlp_raised)
                => apiOp.agent.val.content.kind = "draft"
           /\ (apiOp.agent.ok /\ apiOp.materials_raised)
                => /\ apiOp.agent.val.study_materials.flashcards = <<>>
                   /\ apiOp.agent.val.study_materials.study_notes = <<>>
                   /\ apiOp.agent.val.key_concepts = <<>>
                   /\ apiOp.agent.val.learning_objectives = <<>>

C5_Witness ==
    /\ apiOp.op = "generate_content"
    /\ apiOp.agent_present
    /\ apiOp.agent.ok
    /\ apiOp.search_raised
    /\ apiOp.nlp_raised
    /\ apiOp.materials_raised

\* C6: start-up never crashes, whatever constructor raises and with or
\* without the API key; afterwards, when the agents are absent or the key is
\* missing, every generate-content and generate-questions request is a 200
\* carrying the static fallback output.
C6_StartupSurvives ==
    /\ started \in {"no", "serving"}
    /\ (apiOp.op = "generate_content" /\ (~apiOp.agent_present \/ ~apiKey))
         => /\ apiOp.status = 200
            /\ apiOp.path = "fallback"
            /\ apiOp.body = FallbackBody(apiOp.request)
    /\ (apiOp.op = "generate_questions" /\ (~apiOp.agent_present \/ ~apiKey))
         => /\ apiOp.status = 200
            /\ apiOp.path = "fallback"
            /\ apiOp.questions =
                 FormatFallbackQuestions(
                     Take(FallbackQuestions(apiOp.request.difficulty),
                          apiOp.request.questionCount))

C6_Witness ==
    /\ started = "serving"
    /\ ~agents.content
    /\ ~apiKey
    /\ apiOp.op = "generate_questions"
    /\ apiOp.status = 200
    /\ Len(apiOp.questions) = 3

----------------------------------------------------------------------------
(* POST /api/evaluate-quiz, fallback evaluation *)

\* C7: when the fallback evaluator gets a number of answers that differs
\* from the number of questions, the request is not answered with an error
\* response.
C7_MismatchIsNoError ==
    (/\ apiOp.op = "evaluate_quiz"
     /\ apiOp.path # "agent"
     /\ Len(apiOp.submission.answers) # Len(apiOp.submission.questions))
        => apiOp.status = 200

\* Python round() of n/d for n >= 0, d > 0: to nearest, ties to even
PyRound(n, d) ==
    LET q == n \div d
        r == n % d
    IN IF 2 * r < d THEN q
       ELSE IF 2 * r > d THEN q + 1
       ELSE IF q % 2 = 0 THEN q ELSE q + 1

\* C8: the fallback evaluator's score is round(100 * correct / total) for
\* total > 0 and 0 for total = 0.
C8_ScoreIsRounded ==
    (apiOp.op = "evaluate_quiz" /\ apiOp.path = "fallback")
        => apiOp.score = IF apiOp.total_questions > 0
                         THEN PyRound(100 * apiOp.correct_count, apiOp.total_questions)
                         ELSE 0

\* C9: every persisted progress record has correct_answers <= total_questions,
\* and the fallback evaluator's correct count is at most the number of
\* questions, with a score in 0..100.
C9_CorrectAtMostTotal ==
    /\ \A i \in 1..Len(progress) :
         progress[i].correct_answers <= progress[i].total_questions
    /\ (apiOp.op = "evaluate_quiz" /\ apiOp.path = "fallback")
         => /\ apiOp.correct_count <= apiOp.total_questions
            /\ apiOp.score \in 0..100

IsLetterPair(x, y) ==
    \E k \in 1..Len(UpperLetters) : {x, y} = {UpperLetters[k], LowerLetters[k]}

\* s without its leading and trailing whitespace
Core(s) ==
    LET inked == {i \in 1..Len(s) : ~IsSpace(s[i])}
    IN IF inked = {} THEN <<>>
       ELSE SubSeq(s, CHOOSE i \in inked : \A j \in inked : i <= j,
                      CHOOSE i \in inked : \A j \in inked : i >= j)

EqualUpToCaseAndMargin(a, b) ==
    /\ Len(Core(a)) = Len(Core(b))
    /\ \A i \in 1..Len(Core(a)) :
         Core(a)[i] = Core(b)[i] \/ IsLetterPair(Core(a)[i], Core(b)[i])

\* C10: the fallback evaluator counts question i as correct exactly when the
\* submitted answer and the correctAnswer (each '' when missing) are equal
\* after trimming surrounding whitespace and ignoring letter case.
C10_AnswerMatching ==
    (apiOp.op = "evaluate_quiz" /\ apiOp.path = "fallback")
        => apiOp.correct_count =
             Cardinality({i \in 1..Len(apiOp.submission.questions) :
                            EqualUpToCaseAndMargin(
                                GetOr(apiOp.submission.answers[i].answer),
                                GetOr(apiOp.submission.questions[i].correctAnswer))})

C10_Witness ==
    /\ apiOp.op = "evaluate_quiz"
    /\ apiOp.path = "fallback"
    /\ apiOp.submission.questions =
         <<[correctAnswer |-> Some(<<" ", "O", "k">>)], [correctAnswer |-> Some(<<"o", " ", "k">>)]>>
    /\ apiOp.submission.answers =
         <<[answer |-> Some(<<"o", "K", " ">>)], [answer |-> Some(<<"o", "K", " ">>)]>>
    /\ apiOp.correct_count = 1

----------------------------------------------------------------------------
(* POST /api/generate-questions *)

\* C11: every 200 response of /api/generate-questions, from the agent or
\* from the fallback provider, carries questions whose ids are "1", "2",
\* ..., "n" in order.
C11_IdsAreOneToN ==
    (apiOp.op = "generate_questions" /\ apiOp.status = 200)
        => \A i \in 1..Len(apiOp.questions) : apiOp.questions[i].id = ToString(i)

C11_Witness ==
    /\ apiOp.op = "generate_questions"
    /\ apiOp.status = 200
    /\ apiOp.path = "agent"
    /\ Len(apiOp.questions) = MaxQuestions

\* the fixed list of the fallback provider has 3 questions
FixedQuestionCount == Len(FallbackQuestions("Hard"))

\* C12: on the fallback path the questions are a prefix of the fixed list,
\* their number is min(question_count, 3), and metadata.total_count is that
\* number.
C12_FallbackCount ==
    (apiOp.op = "generate_questions" /\ apiOp.path = "fallback")
        => LET n == Len(apiOp.questions)
               fixed == FallbackQuestions(apiOp.request.difficulty)
           IN /\ n <= Len(fixed)
              /\ \A i \in 1..n : apiOp.questions[i].question = fixed[i].question
              /\ n = Min(apiOp.request.questionCount, FixedQuestionCount)
              /\ apiOp.metadata.total_count = n

----------------------------------------------------------------------------
(* FallbackContentSystem.get_python_content *)

\* s holds the letters p, y, t, h, o, n consecutively, each in either case
HasPythonAnyCase(s) ==
    \E i \in 1..(Len(s) - 5) :
       \A k \in 1..6 :
          \/ s[i + k - 1] = Python[k]
          \/ IsLetterPair(s[i + k - 1], Python[k])

\* C13: the fallback content of a request is the Python lesson exactly when
\* its topic holds "python" in any letter case, otherwise the stub that
\* carries the topic and the subject; and it is the same for every
\* difficulty and content_type.
C13_FallbackDispatch ==
    (apiOp.op = "generate_content" /\ apiOp.path = "fallback")
        => LET rq == apiOp.request
           IN /\ HasPythonAnyCase(rq.topic)
                   => /\ apiOp.body.content.kind = "python_lesson"
                      /\ apiOp.body.content.topic = rq.topic
              /\ ~HasPythonAnyCase(rq.topic)
                   => /\ apiOp.body.content.kind = "stub"
                      /\ apiOp.body.content.topic = rq.topic
                      /\ apiOp.body.content.subject = rq.subject
              /\ \A d \in Difficulties, ct \in ContentTypes :
                    get_python_content(rq.topic, d, rq.subject, ct)
                      = get_python_content(rq.topic, rq.difficulty, rq.subject,
                                           rq.contentType)

C13_Witness ==
    /\ apiOp.op = "generate_content"
    /\ apiOp.path = "fallback"
    /\ apiOp.body.content.kind = "python_lesson"
    /\ ~Contains(apiOp.request.topic, Python)
    /\ apiOp.request.difficulty = "Advanced"

----------------------------------------------------------------------------
(* MongoDBService: failures, content, progress, question statistics *)

\* the reads that return a list
ListOps ==
    {"get_content_by_subject", "get_user_progress", "get_user_performance_summary",
     "get_questions_by_topic", "get_user_sessions"}

\* C14: a service call in which the driver raised hands its caller the
\* failure sentinel - an empty list from the list reads, None from every
\* other operation - and no exception.
C14_FailuresStayInside ==
    (dbOp # Idle /\ dbOp.raised)
        => /\ ~dbOp.escaped
           /\ dbOp.op \in ListOps => dbOp.ret = List(<<>>)
           /\ dbOp.op \notin ListOps => dbOp.ret = None

C14_Witness ==
    /\ dbOp.op = "get_content_by_subject"
    /\ dbOp.raised
    /\ dbOp.ret = List(<<>>)

\* C15: add_content stores the title, content and tags it was given, and a
\* successful get_content_by_subject(s) returns, for every stored document
\* of subject s, a document with that title, content and tags.
C15_ContentRoundTrip ==
    /\ (dbOp.op = "add_content" /\ ~dbOp.raised)
         => LET stored == content_collection[dbOp.ret[1]]
            IN /\ stored.title = dbOp.content_data.title
               /\ stored.content = dbOp.content_data.content
               /\ stored.tags = GetOr(dbOp.content_data.tags)
    /\ (dbOp.op = "get_content_by_subject" /\ ~dbOp.raised)
         => \A i \in 1..Len(content_collection) :
               content_collection[i].subject = Lower(dbOp.subject)
                 => \E k \in 1..Len(dbOp.ret.list) :
                       /\ dbOp.ret.list[k].title = content_collection[i].title
                       /\ dbOp.ret.list[k].content = content_collection[i].content
                       /\ dbOp.ret.list[k].tags = content_collection[i].tags

\* the five buckets of performance_level
PerformanceBucket(score) ==
    CASE score >= 90 -> "excellent"
      [] score >= 80 /\ score < 90 -> "good"
      [] score >= 70 /\ score < 80 -> "satisfactory"
      [] score >= 60 /\ score < 70 -> "needs_improvement"
      [] score < 60 -> "requires_attention"

\* C16: every stored progress record's performance_level is the bucket of
\* its own score.
C16_PerformanceLevel ==
    \A i \in 1..Len(progress) :
       progress[i].performance_level = PerformanceBucket(progress[i].score)

C16_Witness ==
    /\ Len(progress) = 2
    /\ progress[1].score = 90 /\ progress[1].performance_level = "excellent"
    /\ progress[2].score = 89 /\ progress[2].performance_level = "good"

\* C17: a step of the service keeps every saved progress record in place
\* and unchanged, and adds at most one record, which only save_user_progress does.
C17_ProgressAppendOnly ==
    [][/\ Len(progress') >= Len(progress)
       /\ \A i \in 1..Len(progress) : progress'[i] = progress[i]
       /\ Len(progress') > Len(progress)
            => /\ Len(progress') = Len(progress) + 1
               /\ dbOp'.op = "save_user_progress"]_vars

C17_Witness ==
    /\ Len(progress) = MaxProgress
    /\ progress[1].timestamp[1] < now
    /\ dbOp.op = "cleanup_old_sessions"
    /\ ~dbOp.raised
    /\ dbOp.days_old = 0

----------------------------------------------------------------------------
(* ContentGeneratorAgent.generate_content: sizes of the result *)

\* C18: a result of generate_content has at most 8 flashcards, at most 3
\* diagram suggestions and at most 15 key concepts.
C18_ContentCaps ==
    (apiOp.op = "generate_content" /\ apiOp.agent_present /\ apiOp.agent.ok)
        => /\ Len(apiOp.agent.val.study_materials.flashcards) <= 8
           /\ Len(apiOp.agent.val.study_materials.diagram_suggestions) <= 3
           /\ Len(apiOp.agent.val.study_materials.key_concepts) <= 15
           /\ Len(apiOp.agent.val.key_concepts) <= 15

----------------------------------------------------------------------------
(* ContentGeneratorAgent.generate_content: overlapping calls *)

\* C19: whatever the interleaving of the overlapping generate_content calls,
\* a finished call holds the result that generate_content gives for its own
\* arguments and its own collaborator responses when it runs alone.
C19_RequestIsolation ==
    \A r \in 1..MaxRequests :
       pipeline[r].pc = "done"
         => pipeline[r].result =
              agent_generate_content(pipeline[r].request.topic,
                                     pipeline[r].request.difficulty,
                                     pipeline[r].request.subject,
                                     pipeline[r].request.contentType,
                                     pipeline[r].request.learningObjectives,
                                     pipeline[r].env)

C19_Witness ==
    /\ pipeline[1].pc = "done"
    /\ pipeline[1].result.ok
    /\ pipeline[2].pc = "materials"
    /\ pipeline[2].request.topic # pipeline[1].request.topic
    /\ pipeline[2].env.web # pipeline[1].env.web

----------------------------------------------------------------------------
(* ContentGeneratorAgent._retrieve_reliable_sources: a search that raises *)

\* the phases of a generate_content call, in the order it runs them
PhaseNo(pc) ==
    CASE pc = "idle" -> 0
      [] pc = "sources" -> 1
      [] pc = "context" -> 2
      [] pc = "content" -> 3
      [] pc = "processed" -> 4
      [] pc = "materials" -> 5
      [] pc = "done" -> 6

SearchRaised(r) ==
    /\ pipeline[r].pc # "idle"
    /\ ~(pipeline[r].env.academic.ok /\ pipeline[r].env.web.ok)

\* C21: in a generate_content call one of whose two searches raises, the
\* sources are the empty academic and educational lists with quality_score
\* 1/2, the context built from them is empty, and the call goes on to the
\* drafting stage: when it ends, the LLM has been called.
C21_RetrievalFailureDefault ==
    \A r \in 1..MaxRequests :
       SearchRaised(r) =>
          /\ PhaseNo(pipeline[r].pc) > 1 =>
               pipeline[r].sources =
                  Ok([academic |-> <<>>, educational |-> <<>>,
                      quality_score |-> Ratio(1, 2)])
          /\ PhaseNo(pipeline[r].pc) \in 3..5 => pipeline[r].context = Ok(<<>>)
          /\ pipeline[r].pc = "done" => pipeline[r].result.calls = 1

C21_Witness ==
    \E r \in 1..MaxRequests :
       /\ SearchRaised(r)
       /\ pipeline[r].pc = "done"
       /\ pipeline[r].result.ok
       /\ pipeline[r].result.val.sources.quality_score = Ratio(1, 2)

----------------------------------------------------------------------------
(* ContentGeneratorAgent._advanced_nlp_processing: a collaborator that raises *)

\* C22: when extract_entities, extract_key_terms or summarize_text raises
\* during enrichment, the content of the agent's result is the draft as the
\* LLM wrote it, with no heading and no trailer around it, and the study
\* notes are the bullet notes of that draft.
C22_EnrichmentBestEffort ==
    (/\ apiOp # Idle
     /\ apiOp.op = "generate_content"
     /\ apiOp.agent.ok
     /\ apiOp.nlp_raised)
      => /\ apiOp.agent.val.content.kind = "draft"
         /\ apiOp.agent.val.content.lines \in DraftTexts \cup {FailText}
         /\ Lines(apiOp.agent.val.content) = apiOp.agent.val.content.lines
         /\ ~apiOp.materials_raised =>
               apiOp.agent.val.study_materials.study_notes =
                  create_bullet_notes([kind |-> "draft",
                                       lines |-> apiOp.agent.val.content.lines])

C22_Witness ==
    /\ apiOp # Idle
    /\ apiOp.op = "generate_content"
    /\ apiOp.agent.ok
    /\ apiOp.nlp_raised
    /\ ~apiOp.materials_raised
    /\ apiOp.agent.val.content.lines \in DraftTexts
    /\ apiOp.agent.val.study_materials.study_notes # <<>>

----------------------------------------------------------------------------
(* ContentGeneratorAgent._assess_source_quality *)

\* word occurs in text, each letter in either case
HasIgnoringCase(text, word) ==
    \E i \in 0..(Len(text) - Len(word)) :
       \A j \in 1..Len(word) :
          \/ text[i + j] = word[j]
          \/ IsLetterPair(text[i + j], word[j])

\* the number of trust keywords present in the title and content of a snippet
KeywordsPresent(snippet) ==
    Cardinality({k \in TrustKeywords :
                   HasIgnoringCase(snippet.title \o <<" ">> \o snippet.content,
                                   IndicatorChars[k])})

RECURSIVE SumPresent(_)
SumPresent(snippets) ==
    IF snippets = <<>> THEN 0
    ELSE KeywordsPresent(Head(snippets)) + SumPresent(Tail(snippets))

\* C23: the quality score of the retrieved snippets (all of both search
\* results, before three of each are kept) lies in [0, 1], is 0 when nothing
\* was retrieved, and otherwise is the mean over the snippets of (trust
\* keywords present in title and content, in any letter case) / 5.
C23_SourceQualityScore ==
    (/\ apiOp # Idle
     /\ apiOp.op = "retrieve_reliable_sources"
     /\ apiOp.academic.ok
     /\ apiOp.web.ok)
      => LET S == apiOp.academic.val \o apiOp.web.val
             q == apiOp.ret.val.quality_score
         IN /\ 0 <= q.num
            /\ q.num <= q.den
            /\ S = <<>> => q = Ratio(0, 1)
            /\ S # <<>> => q = Ratio(SumPresent(S), 5 * Len(S))

C23_Witness ==
    /\ apiOp # Idle
    /\ apiOp.op = "retrieve_reliable_sources"
    /\ apiOp.academic.ok
    /\ apiOp.web.ok
    /\ Len(apiOp.academic.val) > 3
    /\ apiOp.ret.val.quality_score
         # assess_source_quality(apiOp.ret.val.academic \o apiOp.ret.val.educational)
    /\ apiOp.ret.val.quality_score.num > 0

----------------------------------------------------------------------------
(* ContentGeneratorAgent._suggest_diagrams *)

HasAnyIgnoringCase(text, words) == \E w \in words : HasIgnoringCase(text, w)

\* the ordered candidate list of a topic and its entities
DiagramCandidates(topic, entities) ==
    LET Row(cond, names) == IF cond THEN names ELSE <<>>
    IN Row(HasAnyIgnoringCase(topic, ProcessWords), <<"Process Flow Diagram">>)
       \o Row(HasAnyIgnoringCase(topic, StructureWords), <<"Labeled Diagram">>)
       \o Row(HasAnyIgnoringCase(topic, CompareWords), <<"Comparison Chart">>)
       \o Row(Len(entities) > 5, <<"Mind Map", "Concept Map">>)
       \o <<"Summary Infographic">>

MitosisProcess ==
    <<"M", "i", "t", "o", "s", "i", "s", " ", "p", "r", "o", "c", "e", "s", "s">>

\* C24: the diagram suggestions are the first three entries of the ordered
\* candidate list of the topic and the entities, so there are between one
\* and three of them; for the topic "Mitosis process" with more than five
\* entities they are Process Flow Diagram, Mind Map, Concept Map.
C24_DiagramSuggestions ==
    (apiOp # Idle /\ apiOp.op = "suggest_diagrams")
      => LET candidates == DiagramCandidates(apiOp.topic, apiOp.entities)
             n == IF Len(candidates) < 3 THEN Len(candidates) ELSE 3
         IN /\ apiOp.ret = SubSeq(candidates, 1, n)
            /\ Len(apiOp.ret) \in 1..3
            /\ (apiOp.topic = MitosisProcess /\ Len(apiOp.entities) > 5)
                 => apiOp.ret = <<"Process Flow Diagram", "Mind Map", "Concept Map">>

C24_Witness ==
    /\ apiOp # Idle
    /\ apiOp.op = "suggest_diagrams"
    /\ apiOp.topic = MitosisProcess
    /\ Len(apiOp.entities) > 5
    /\ Len(apiOp.ret) = 3

----------------------------------------------------------------------------
(* ContentGeneratorAgent._create_bullet_notes *)

\* positions of the content lines that qualify for a note
Qualifying(lines) ==
    {j \in 1..Len(lines) :
        /\ lines[j].period
        /\ lines[j].len > 20
        /\ lines[j].len < 200
        /\ lines[j].level = 0}

\* the i-th qualifying position in document order
NthQualifying(lines, i) ==
    CHOOSE j \in Qualifying(lines) :
       Cardinality({m \in Qualifying(lines) : m < j}) = i - 1

\* C25: the study notes of a content text have at most 15 lines; they are
\* the first qualifying lines of the text in document order, a line
\* qualifying when it holds a period, is more than 20 and less than 200
\* characters long and does not start with a heading marker.
C25_StudyNotes ==
    (apiOp # Idle /\ apiOp.op = "create_bullet_notes")
      => LET lines == apiOp.content.lines
             q == Cardinality(Qualifying(lines))
         IN /\ Len(apiOp.ret) <= 15
            /\ Len(apiOp.ret) = IF q < 15 THEN q ELSE 15
            /\ \A i \in 1..Len(apiOp.ret) :
                  apiOp.ret[i].bullet = lines[NthQualifying(lines, i)].text

C25_Witness ==
    /\ apiOp # Idle
    /\ apiOp.op = "create_bullet_notes"
    /\ Cardinality(Qualifying(apiOp.content.lines)) > 15
    /\ Cardinality(Qualifying(apiOp.content.lines)) < Len(apiOp.content.lines)
    /\ Len(apiOp.ret) = 15

----------------------------------------------------------------------------
(* MongoDBService.update_question_stats: overlapping calls *)

\* C26: when no update_question_stats call is in progress, the stored
\* success_rate of every question that has been used equals its
\* correct_count / usage_count.
C26_ConcurrentStatistics ==
    (\A c \in 1..MaxCallers : statsInFlight[c].pc = "idle")
      => \A i \in 1..Len(questions_collection) :
            questions_collection[i].usage_count > 0
              => questions_collection[i].success_rate
                   = Ratio(GetCount(questions_collection[i].correct_count),
                           questions_collection[i].usage_count)

----------------------------------------------------------------------------
(* api/main.py: the agents after start-up *)

AllConstructed == constructed.content /\ constructed.question /\ constructed.feedback

\* C27: in the serving process the three agents are all present or all
\* absent, and present exactly when all three constructors returned;
\* /health reports agents_loaded accordingly; when a constructor raised, no
\* request of the three endpoints is answered by an agent.
C27_AgentsAllOrNothing ==
    started = "serving"
      => /\ agents.content = agents.question
         /\ agents.question = agents.feedback
         /\ agents.content = AllConstructed
         /\ (apiOp # Idle /\ apiOp.op = "health")
              => apiOp.agents_loaded = AllConstructed
         /\ (/\ apiOp # Idle
             /\ apiOp.op \in {"generate_content", "generate_questions", "evaluate_quiz"}
             /\ ~AllConstructed)
              => /\ ~apiOp.agent_present
                 /\ apiOp.path # "agent"

C27_Witness ==
    /\ started = "serving"
    /\ constructed.content
    /\ constructed.question
    /\ ~constructed.feedback
    /\ apiOp # Idle
    /\ apiOp.op = "health"
    /\ ~apiOp.agents_loaded

----------------------------------------------------------------------------
(* app.py: quiz state of the dashboard *)

QuizCleared ==
    /\ ~session_state.quiz_completed
    /\ session_state.quiz_questions = None
    /\ session_state.quiz_answers = <<>>

\* C28: quiz_completed is true only while quiz_answers has exactly the keys
\* 1..n of the n questions of the current quiz; a successful evaluation
\* leaves the quiz state cleared, so there are never more evaluations than
\* submissions; a feedback tab run that does not evaluate successfully
\* leaves the quiz state as it was.
C28_QuizState ==
    /\ [](session_state.quiz_completed
            => /\ session_state.quiz_questions # None
               /\ DOMAIN session_state.quiz_answers
                    = 1..Len(session_state.quiz_questions[1]))
    /\ [](quizLog.evaluated <= quizLog.submitted)
    /\ [][/\ quizLog'.evaluated # quizLog.evaluated => QuizCleared'
          /\ (uiPc = "feedback" /\ quizLog'.evaluated = quizLog.evaluated)
               => session_state' = session_state]_vars

C28_Witness ==
    /\ quizLog.evaluated = 2
    /\ quizLog.submitted = 2
    /\ QuizCleared
    /\ session_state.show_quiz

----------------------------------------------------------------------------
(* app.py: difficulty sliders of the question settings *)

InUnitInterval(q) == 0 <= q.num /\ q.num <= q.den

\* C29: the difficulty distribution passed to generate_questions has Easy,
\* Medium and Hard each in [0, 1], and the three sum to 1.
C29_DifficultyDistribution ==
    quizLog.distribution # None
      => LET d == quizLog.distribution[1]
         IN /\ InUnitInterval(d.Easy)
            /\ InUnitInterval(d.Medium)
            /\ InUnitInterval(d.Hard)
            /\ d.Easy.num * d.Medium.den * d.Hard.den
                 + d.Medium.num * d.Easy.den * d.Hard.den
                 + d.Hard.num * d.Easy.den * d.Medium.den
               = d.Easy.den * d.Medium.den * d.Hard.den

----------------------------------------------------------------------------
(* MongoDBService.cleanup_old_sessions *)

\* C30: a cleanup_old_sessions(days_old) call deletes only sessions that are
\* completed and whose end_time is before now - days_old: every active
\* session and every session completed at or after the cutoff is still
\* stored, unchanged, after the call; and the call changes no other
\* collection.
C30_CleanupIsSafe ==
    [][(dbOp = Idle /\ dbOp'.op = "cleanup_old_sessions")
         => LET cutoff == now - dbOp'.days_old
            IN /\ DOMAIN sessions' \subseteq DOMAIN sessions
               /\ \A id \in DOMAIN sessions' : sessions'[id] = sessions[id]
               /\ \A id \in DOMAIN sessions \ DOMAIN sessions' :
                     /\ sessions[id].status = "completed"
                     /\ sessions[id].end_time # None
                     /\ sessions[id].end_time[1] < cutoff
               /\ UNCHANGED <<progress, content_collection, questions_collection,
                              users_collection>>]_vars

C30_Witness ==
    /\ dbOp.op = "cleanup_old_sessions"
    /\ ~dbOp.raised
    /\ nextId = 3
    /\ DOMAIN sessions = {2}
    /\ sessions[2].status = "completed"
    /\ sessions[2].end_time = Some(now - dbOp.days_old)

====
